---- MODULE Spec2Model ----
(***************************************************************************)
(* Model of the mutex-serialised JSON document store (services/dbService)  *)
(* and of the message-queue / broadcast worker (index.js) of the font bot. *)
(*                                                                         *)
(* One Node.js event loop runs everything.  A step of the model is one     *)
(* run-to-completion piece of JavaScript: the code between two awaits.     *)
(***************************************************************************)
EXTENDS Integers, Sequences, FiniteSets, TLC

\* ------------------------------------------------------------------ bounds

\* Number of handler-side callers that issue accessor calls concurrently.
NumCallers == 3
\* Largest recipient list of a bulk broadcast (above the error cap).
MaxRecipients == 52
\* Number of queue calls issued against a nearly full queue.
MaxEnqueues == 3
\* Number of timer ticks that start a worker cycle.
MaxTicks == 2
\* Number of times the process is stopped and started again.
MaxRestarts == 1
\* Number of activity calls issued for a user with a nearly full history.
MaxCalls == 3
\* Number of content views tracked.
MaxViews == 2
\* Longest chain of pending calls inside UserProfileService.
MaxDepth == 6

\* ------------------------------------------------------- program constants

QUEUE_CAP == 1000        \* messageQueue.length >= 1000 triggers the trim
QUEUE_KEEP == 500        \* slice(-500)
TEXT_LIMIT == 4000       \* text.substring(0, 4000)
BROADCAST_TEXT_LIMIT == 1000
ERROR_CAP == 50          \* errors.length < 50
ERROR_TEXT_LIMIT == 200
REASON_LIMIT == 500
NAME_LIMIT == 200
ADMIN_ID == 1            \* process.env.ADMIN_CHAT_ID
ACTIVITY_CAP == 20       \* slice(0, 20)
CACHE_CAP == 1000
CACHE_EVICT == 200

\* ----------------------------------------------------------------- helpers

Min(a, b) == IF a < b THEN a ELSE b
Max(a, b) == IF a > b THEN a ELSE b

\* A JavaScript string is modelled by a tag and its length.
Txt(s, n) == [s |-> s, len |-> n]

\* String.prototype.substring(0, n)
substring(t, n) == [t EXCEPT !.len = Min(t.len, n)]

\* Array.prototype.slice(0, n): the first n elements
SliceHead(q, n) == SubSeq(q, 1, Min(Len(q), n))

\* Array.prototype.slice(-n): the last n elements
SliceTail(q, n) == SubSeq(q, Max(1, Len(q) - n + 1), Len(q))

\* obj[k] = v  and  delete obj[k]  on an object used as a map
Put(f, k, v) == [x \in (DOMAIN f) \cup {k} |-> IF x = k THEN v ELSE f[x]]
Del(f, k) == [x \in (DOMAIN f) \ {k} |-> f[x]]

EmptyMap == [x \in {} |-> 0]

\* null for a timestamp field (timestamps of the model start at 1)
NullTime == 0

\* undefined passed where a user id (ids are positive) or a string is expected
Missing == 0 - 1

\* The value an async function yields: undefined, a boolean or a list; or it throws.
Undefined == [t |-> "undefined"]
Bool(b) == [t |-> "bool", v |-> b]
List(q) == [t |-> "list", v |-> q]
Threw == [t |-> "threw"]

\* ---------------------------------------------------------------- document

\* defaultData: the document of a fresh installation.
\* broadcastResults is <<>> for null and <<record>> otherwise.
defaultData ==
    [users |-> EmptyMap,
     bannedUsers |-> EmptyMap,
     messageQueue |-> <<>>,
     fileIdCache |-> <<>>,
     broadcastResults |-> <<>>]

\* The effect of an accessor body run up to its db.write(): the document after
\* the mutation, whether db.write() is reached, and the value returned if the
\* write succeeds.
Eff(d, w, r) == [doc |-> d, write |-> w, ret |-> r]

\* Variant: every upsert stores a fresh record, first-seen time and activity included.
addOrUpdateUserResets(d, cleanUser, now) ==
    LET rec == [id |-> cleanUser.id,
                first_name |-> cleanUser.first_name,
                is_bot |-> cleanUser.is_bot,
                lastSeen |-> now,
                firstSeen |-> now,
                activity |-> [downloads |-> <<>>, uploads |-> <<>>]]
    IN  Eff([d EXCEPT !.users = Put(@, cleanUser.id, rec)], TRUE, Undefined)

\* addOrUpdateUser: the record is replaced by the supplied fields (...cleanUser,
\* a preferences field included when the caller passes one) with lastSeen =
\* now; firstSeen and activity are taken from the existing record, if any.
addOrUpdateUser(d, cleanUser, now) ==
    LET userId == cleanUser.id
        existing == userId \in DOMAIN d.users
        rec == [id |-> cleanUser.id,
                first_name |-> cleanUser.first_name,
                is_bot |-> cleanUser.is_bot,
                lastSeen |-> now,
                firstSeen |-> IF existing THEN d.users[userId].firstSeen ELSE now,
                activity |-> IF existing THEN d.users[userId].activity
                             ELSE [downloads |-> <<>>, uploads |-> <<>>]]
        all == IF "preferences" \in DOMAIN cleanUser
               THEN Put(rec, "preferences", cleanUser.preferences)
               ELSE rec
    IN  Eff([d EXCEPT !.users = Put(@, userId, all)], TRUE, Undefined)

\* Object.values(db.data.users): integer-like keys are enumerated in ascending order.
RECURSIVE SortedIds(_)
SortedIds(S) ==
    IF S = {} THEN <<>>
    ELSE LET m == CHOOSE x \in S : \A y \in S : x <= y
         IN  <<m>> \o SortedIds(S \ {m})

getAllUsers(d) == [i \in 1..Cardinality(DOMAIN d.users) |-> d.users[SortedIds(DOMAIN d.users)[i]]]

\* Variant: a lookup of an unknown id fails.
findUserByIdStrict(d, userId) ==
    IF userId \in DOMAIN d.users THEN <<d.users[userId]>> ELSE Threw

\* (db.data.users || {})[userId.toString()] || null ; <<>> for null
findUserById(d, userId) ==
    IF userId \in DOMAIN d.users THEN <<d.users[userId]>> ELSE <<>>

\* Variant: a ban of a banned user overwrites the entry.
banUserOverwrites(d, userId, reason, now) ==
    IF userId = Missing
    THEN Eff(d, FALSE, Threw)
    ELSE Eff([d EXCEPT !.bannedUsers =
                  Put(@, userId, [reason |-> substring(reason, REASON_LIMIT), date |-> now])],
             TRUE, Bool(TRUE))

\* userId.toString() of an undefined id throws inside the try block: banUser and
\* unbanUser rethrow it, logDownload and logUpload only log it.
banUser(d, userId, reason, now) ==
    IF userId = Missing
    THEN Eff(d, FALSE, Threw)
    ELSE IF userId \in DOMAIN d.bannedUsers
    THEN Eff(d, FALSE, Bool(FALSE))
    ELSE Eff([d EXCEPT !.bannedUsers =
                  Put(@, userId, [reason |-> substring(reason, REASON_LIMIT), date |-> now])],
             TRUE, Bool(TRUE))

unbanUser(d, userId) ==
    IF userId = Missing
    THEN Eff(d, FALSE, Threw)
    ELSE IF userId \notin DOMAIN d.bannedUsers
    THEN Eff(d, FALSE, Bool(FALSE))
    ELSE Eff([d EXCEPT !.bannedUsers = Del(@, userId)], TRUE, Bool(TRUE))

isUserBanned(d, userId) == userId \in DOMAIN d.bannedUsers

\* Object.entries(db.data.bannedUsers || {}).map(([id, data]) => ({ id, ...data }))
getBanList(d) ==
    LET ids == SortedIds(DOMAIN d.bannedUsers)
    IN  [i \in 1..Len(ids) |-> [id |-> ids[i], reason |-> d.bannedUsers[ids[i]].reason,
                                date |-> d.bannedUsers[ids[i]].date]]

\* Variant: the new download is appended after the stored ones before the cut.
logDownloadKeepsOldest(d, userId, fontName, now) ==
    IF userId = Missing \/ userId \notin DOMAIN d.users
    THEN Eff(d, FALSE, Undefined)
    ELSE LET entry == [fontName |-> substring(fontName, NAME_LIMIT), date |-> now]
             downloads == SliceHead(d.users[userId].activity.downloads \o <<entry>>, ACTIVITY_CAP)
         IN  Eff([d EXCEPT !.users[userId].activity.downloads = downloads], TRUE, Undefined)

\* logDownload: nothing happens for an unknown user; else the entry is put in
\* front (unshift) and the list is cut to its first 20 entries, then db.write().
logDownload(d, userId, fontName, now) ==
    IF userId = Missing \/ userId \notin DOMAIN d.users
    THEN Eff(d, FALSE, Undefined)
    ELSE LET entry == [fontName |-> substring(fontName, NAME_LIMIT), date |-> now]
             downloads == SliceHead(<<entry>> \o d.users[userId].activity.downloads, ACTIVITY_CAP)
         IN  Eff([d EXCEPT !.users[userId].activity.downloads = downloads], TRUE, Undefined)

\* findIndex(u => u.fontName === fontName && u.status === 'pending'); 0 for -1
FindPending(uploads, fontName) ==
    LET hits == {i \in 1..Len(uploads) :
                    uploads[i].fontName = fontName /\ uploads[i].status = "pending"}
    IN  IF hits = {} THEN 0 ELSE CHOOSE i \in hits : \A j \in hits : i <= j

logUpload(d, userId, fontName, status, now) ==
    IF userId = Missing \/ userId \notin DOMAIN d.users
    THEN Eff(d, FALSE, Undefined)
    ELSE LET old == d.users[userId].activity.uploads
             k == FindPending(old, fontName)
             upd == IF k > 0
                    THEN [old EXCEPT ![k] = [fontName |-> old[k].fontName, status |-> status,
                                             date |-> old[k].date, decisionDate |-> now]]
                    ELSE <<[fontName |-> substring(fontName, NAME_LIMIT), status |-> status,
                            date |-> now, decisionDate |-> NullTime]>> \o old
         IN  Eff([d EXCEPT !.users[userId].activity.uploads = SliceHead(upd, ACTIVITY_CAP)],
                 TRUE, Undefined)

\* Variant: the trim triggers only above the cap.
addMessageTrimLate(d, chatId, text, isBroadcast, now) ==
    LET kept == IF Len(d.messageQueue) > QUEUE_CAP
                THEN SliceTail(d.messageQueue, QUEUE_KEEP)
                ELSE d.messageQueue
        entry == [chatId |-> chatId, text |-> substring(text, TEXT_LIMIT),
                  isBroadcast |-> isBroadcast, timestamp |-> now]
    IN  Eff([d EXCEPT !.messageQueue = Append(kept, entry)], TRUE, Undefined)

addMessageToQueue(d, chatId, text, isBroadcast, now) ==
    LET kept == IF Len(d.messageQueue) >= QUEUE_CAP
                THEN SliceTail(d.messageQueue, QUEUE_KEEP)
                ELSE d.messageQueue
        entry == [chatId |-> chatId, text |-> substring(text, TEXT_LIMIT),
                  isBroadcast |-> isBroadcast, timestamp |-> now]
    IN  Eff([d EXCEPT !.messageQueue = Append(kept, entry)], TRUE, Undefined)

\* Variant: the drain copies the queue and forgets to clear it.
popAllKeepsQueue(d) ==
    Eff(d, TRUE, List(d.messageQueue))

popAllMessagesFromQueue(d) ==
    Eff([d EXCEPT !.messageQueue = <<>>], TRUE, List(d.messageQueue))

\* Variant: a new broadcast resets the message and the total but keeps counting
\* on the counters of the record before it.
startBroadcastLogKeepsCounts(d, message, totalUsers, now) ==
    LET old == d.broadcastResults
    IN  Eff([d EXCEPT !.broadcastResults =
                <<[message |-> substring(message, BROADCAST_TEXT_LIMIT),
                   total |-> Max(0, totalUsers),
                   sent |-> IF old = <<>> THEN 0 ELSE old[1].sent,
                   failed |-> IF old = <<>> THEN 0 ELSE old[1].failed,
                   startedAt |-> now,
                   completedAt |-> NullTime,
                   errors |-> IF old = <<>> THEN <<>> ELSE old[1].errors]>>],
            TRUE, Undefined)

\* startBroadcastLog: db.data.broadcastResults is replaced by a fresh record.
startBroadcastLog(d, message, totalUsers, now) ==
    Eff([d EXCEPT !.broadcastResults =
            <<[message |-> substring(message, BROADCAST_TEXT_LIMIT),
               total |-> Max(0, totalUsers),
               sent |-> 0,
               failed |-> 0,
               startedAt |-> now,
               completedAt |-> NullTime,
               errors |-> <<>>]>>],
        TRUE, Undefined)

\* Variant: the error list takes one entry more than the cap.
logBroadcastResultCapLate(d, success, chatId, errorMessage) ==
    IF d.broadcastResults = <<>>
    THEN Eff(d, FALSE, Undefined)
    ELSE LET r == d.broadcastResults[1]
             r2 == IF success
                   THEN [r EXCEPT !.sent = @ + 1]
                   ELSE [r EXCEPT !.failed = @ + 1,
                                  !.errors = IF Len(@) <= ERROR_CAP
                                             THEN Append(@, [chatId |-> chatId,
                                                             error |-> substring(errorMessage, ERROR_TEXT_LIMIT)])
                                             ELSE @]
         IN  Eff([d EXCEPT !.broadcastResults = <<r2>>], TRUE, Undefined)

logBroadcastResult(d, success, chatId, errorMessage) ==
    IF d.broadcastResults = <<>>
    THEN Eff(d, FALSE, Undefined)
    ELSE LET r == d.broadcastResults[1]
             r2 == IF success
                   THEN [r EXCEPT !.sent = @ + 1]
                   ELSE [r EXCEPT !.failed = @ + 1,
                                  !.errors = IF Len(@) < ERROR_CAP
                                             THEN Append(@, [chatId |-> chatId,
                                                             error |-> substring(errorMessage, ERROR_TEXT_LIMIT)])
                                             ELSE @]
         IN  Eff([d EXCEPT !.broadcastResults = <<r2>>], TRUE, Undefined)

endBroadcastLog(d, now) ==
    IF d.broadcastResults = <<>>
    THEN Eff(d, FALSE, Undefined)
    ELSE Eff([d EXCEPT !.broadcastResults[1].completedAt = now], TRUE, Undefined)

getBroadcastStatus(d) == d.broadcastResults

\* (db.data.fileIdCache || {})[fontName] || null ; <<>> for null
getCachedFileId(d, fontName) ==
    LET hits == {i \in 1..Len(d.fileIdCache) : d.fileIdCache[i].fontName = fontName}
    IN  IF hits = {} THEN <<>> ELSE <<d.fileIdCache[CHOOSE i \in hits : TRUE].fileId>>

\* index of fontName among the cache keys (insertion order); 0 when absent
CacheIndex(cache, fontName) ==
    LET hits == {i \in 1..Len(cache) : cache[i].fontName = fontName}
    IN  IF hits = {} THEN 0 ELSE CHOOSE i \in hits : TRUE

\* Variant: the cleanup triggers only above 1000 keys.
cacheFileIdTrimLate(d, fontName, fileId) ==
    LET kept == IF Len(d.fileIdCache) > CACHE_CAP
                THEN SubSeq(d.fileIdCache, CACHE_EVICT + 1, Len(d.fileIdCache))
                ELSE d.fileIdCache
        k == CacheIndex(kept, fontName)
        entry == [fontName |-> fontName, fileId |-> fileId]
    IN  Eff([d EXCEPT !.fileIdCache = IF k > 0 THEN [kept EXCEPT ![k] = entry]
                                      ELSE Append(kept, entry)],
            TRUE, Undefined)

cacheFileId(d, fontName, fileId) ==
    LET kept == IF Len(d.fileIdCache) >= CACHE_CAP
                THEN SubSeq(d.fileIdCache, CACHE_EVICT + 1, Len(d.fileIdCache))
                ELSE d.fileIdCache
        k == CacheIndex(kept, fontName)
        entry == [fontName |-> fontName, fileId |-> fileId]
    IN  Eff([d EXCEPT !.fileIdCache = IF k > 0 THEN [kept EXCEPT ![k] = entry]
                                      ELSE Append(kept, entry)],
            TRUE, Undefined)

\* The object getData() returns is db.data itself, not a copy.
Live == [ref |-> "db.data"]

\* db.data = data, where data is most often the object getData() handed out.
saveData(d, data) == Eff(IF data = Live THEN d ELSE data, TRUE, Undefined)

\* ------------------------------------------------------------ accessor calls

\* An accessor call is described by its name and arguments.
NoOp == [op |-> "none"]

\* The body of each mutating accessor between mutex.acquire() and db.write().
Apply(d, o, now) ==
    CASE o.op = "addOrUpdateUser" -> addOrUpdateUser(d, o.user, now)
      [] o.op = "banUser" -> banUser(d, o.userId, o.reason, now)
      [] o.op = "unbanUser" -> unbanUser(d, o.userId)
      [] o.op = "logDownload" -> logDownload(d, o.userId, o.fontName, now)
      [] o.op = "logUpload" -> logUpload(d, o.userId, o.fontName, o.status, now)
      [] o.op = "addMessageToQueue" -> addMessageToQueue(d, o.chatId, o.text, o.isBroadcast, now)
      [] o.op = "popAllMessagesFromQueue" -> popAllMessagesFromQueue(d)
      [] o.op = "cacheFileId" -> cacheFileId(d, o.fontName, o.fileId)
      [] o.op = "startBroadcastLog" -> startBroadcastLog(d, o.message, o.totalUsers, now)
      [] o.op = "logBroadcastResult" -> logBroadcastResult(d, o.success, o.chatId, o.errorMessage)
      [] o.op = "endBroadcastLog" -> endBroadcastLog(d, now)
      [] o.op = "saveData" -> saveData(d, o.data)

\* The catch block of each accessor: what the caller gets when db.write() rejects.
\* Variant: the drain rethrows like the enqueue.
OnWriteErrorDrainThrows(o) ==
    CASE o.op \in {"initializeDatabase", "addOrUpdateUser", "banUser", "unbanUser",
                   "addMessageToQueue", "saveData", "popAllMessagesFromQueue"} -> Threw
      [] OTHER -> Undefined

\* initializeDatabase, addOrUpdateUser, banUser, unbanUser, addMessageToQueue and
\* saveData log and rethrow; popAllMessagesFromQueue returns []; the others only log.
OnWriteError(o) ==
    CASE o.op \in {"initializeDatabase", "addOrUpdateUser", "banUser", "unbanUser",
                   "addMessageToQueue", "saveData"} -> Threw
      [] o.op = "popAllMessagesFromQueue" -> List(<<>>)
      [] OTHER -> Undefined

\* The worker of index.js is caller 0; handler-side callers are 1..NumCallers.
Worker == 0
Handlers == 1..NumCallers
Callers == {Worker} \cup Handlers

VARIABLES
    mem,          \* db.data: the in-memory document
    disk,         \* db.json: the persisted document
    clock,        \* logical time, read by new Date()
    locked,       \* the mutex is held
    waiters,      \* FIFO queue of callers blocked in mutex.acquire()
    pc,           \* per caller: position of its current accessor call
    op,           \* per caller: the accessor call it is running
    pend,         \* per caller: the serialised document handed to db.write()
    ret,          \* per caller: value its call yields (set when the call ends)
    seen,         \* per caller: messageQueue found when its critical section began
    reqOrder,     \* history: handlers in the order of their mutex.acquire() calls
    enterOrder,   \* history: handlers in the order their critical sections began
    applied,      \* history: handler calls in the order their mutations were applied
    writeFailed,  \* history: some db.write() has rejected
    wrote,        \* history, per caller: how the db.write() of its current call ended
    drainLog,     \* history: one record per finished popAllMessagesFromQueue call
    doc0,         \* history: the document initializeDatabase loaded
    isWorkerRunning, \* index.js: the re-entrancy flag of the queue worker
    wpc,          \* the await the queue worker is suspended at
    messagesToSend,  \* the batch the worker drained
    allUsers,     \* what db.getAllUsers() returned to handleBroadcastMessage
    idx,          \* position of the for-loop over targets / messages (1-based)
    failSet,      \* transport stub: chat ids for which bot.sendMessage rejects
    ticks,        \* number of timer ticks that started a worker cycle
    sends,        \* history: bot.sendMessage attempts of the current cycle
    logged,       \* history: db.logBroadcastResult calls of the current cycle
    restarts,     \* number of times the process was stopped and started again
    atCrash,      \* history: the broadcast the last stop interrupted
    lastRead,     \* history: the last call of a read-only accessor and its result
    frames        \* the chain of pending calls inside UserProfileService

storeVars == <<mem, disk, clock, locked, waiters, pc, op, pend, ret, seen,
               reqOrder, enterOrder, applied, writeFailed, wrote, drainLog, doc0>>

workerVars == <<isWorkerRunning, wpc, messagesToSend, allUsers, idx, failSet, ticks,
                sends, logged>>

auxVars == <<restarts, atCrash, lastRead, frames>>

vars == <<storeVars, workerVars, auxVars>>

\* Variant: acquire() never blocks.
CanLockAlways == TRUE

\* mutex.acquire() resolves at once when the mutex is free.
CanLock == ~locked

\* Variant: release() wakes the most recent waiter.
NewestWaiter == Len(waiters)

\* release() hands the mutex to the waiter that has waited longest.
NextWaiter == 1

WithoutAt(q, i) == SubSeq(q, 1, i - 1) \o SubSeq(q, i + 1, Len(q))

\* const release = await mutex.acquire(): the caller takes the free mutex or queues.
Request(c, o) ==
    /\ pc[c] \in {"idle", "done"}
    /\ op' = [op EXCEPT ![c] = o]
    /\ reqOrder' = IF c \in Handlers THEN Append(reqOrder, c) ELSE reqOrder
    /\ IF CanLock
       THEN /\ locked' = TRUE
            /\ pc' = [pc EXCEPT ![c] = "acquired"]
            /\ UNCHANGED waiters
       ELSE /\ waiters' = Append(waiters, c)
            /\ pc' = [pc EXCEPT ![c] = "waiting"]
            /\ UNCHANGED locked
    /\ wrote' = [wrote EXCEPT ![c] = "none"]
    /\ UNCHANGED <<disk, clock, pend, ret, seen, enterOrder, applied, writeFailed,
                   drainLog, doc0>>

\* An accessor is called: nothing of the document is touched ahead of the mutex.
Acquire(c, o) == Request(c, o) /\ UNCHANGED mem

\* Variant: release() resolves every pending acquire() at once.
ReleaseWakesAll(p) ==
    /\ pc' = [c \in Callers |-> IF pc[c] = "waiting" THEN "acquired" ELSE p[c]]
    /\ waiters' = <<>>
    /\ locked' = (waiters # <<>>)

\* release() in the finally block: the mutex passes to the next waiter, whose
\* acquire() promise resolves, or becomes free.  p is pc with the releasing
\* caller's own position already updated.
Release(p) ==
    IF waiters = <<>>
    THEN /\ locked' = FALSE
         /\ pc' = p
         /\ UNCHANGED waiters
    ELSE /\ pc' = [p EXCEPT ![waiters[NextWaiter]] = "acquired"]
         /\ waiters' = WithoutAt(waiters, NextWaiter)
         /\ UNCHANGED locked

\* History kept for a popAllMessagesFromQueue call that just ended.
Drained(c, r, ok, m, d) ==
    IF op[c].op = "popAllMessagesFromQueue"
    THEN Append(drainLog, [caller |-> c, before |-> seen[c],
                           returned |-> IF r.t = "list" THEN r.v ELSE <<>>, ok |-> ok,
                           memQueue |-> m.messageQueue, diskQueue |-> d.messageQueue])
    ELSE drainLog

\* Variant: banUser stores the entry's reason first and its date only after the write.
EnterTorn(c) ==
    /\ pc[c] = "acquired"
    /\ LET e == Apply(mem, op[c], clock)
       IN  /\ mem' = IF op[c].op = "banUser" /\ e.write
                     THEN [e.doc EXCEPT !.bannedUsers[op[c].userId].date = NullTime]
                     ELSE e.doc
           /\ clock' = clock + 1
           /\ seen' = [seen EXCEPT ![c] = mem.messageQueue]
           /\ enterOrder' = IF c \in Handlers THEN Append(enterOrder, c) ELSE enterOrder
           /\ applied' = IF c \in Handlers THEN Append(applied, op[c]) ELSE applied
           /\ ret' = [ret EXCEPT ![c] = e.ret]
           /\ IF e.write
              THEN /\ pend' = [pend EXCEPT ![c] = <<e.doc>>]
                   /\ pc' = [pc EXCEPT ![c] = "writing"]
                   /\ UNCHANGED <<locked, waiters, drainLog>>
              ELSE /\ Release([pc EXCEPT ![c] = "done"])
                   /\ drainLog' = Drained(c, e.ret, TRUE, e.doc, disk)
                   /\ UNCHANGED pend
    /\ UNCHANGED <<disk, op, reqOrder, writeFailed, wrote, doc0>>

\* The accessor resumes holding the mutex: it applies its mutation to db.data and
\* either returns early (finally: release) or calls db.write(), which serialises
\* db.data at once and completes later.
Enter(c) ==
    /\ pc[c] = "acquired"
    /\ LET e == Apply(mem, op[c], clock)
       IN  /\ mem' = e.doc
           /\ clock' = clock + 1
           /\ seen' = [seen EXCEPT ![c] = mem.messageQueue]
           /\ enterOrder' = IF c \in Handlers THEN Append(enterOrder, c) ELSE enterOrder
           /\ applied' = IF c \in Handlers THEN Append(applied, op[c]) ELSE applied
           /\ ret' = [ret EXCEPT ![c] = e.ret]
           /\ IF e.write
              THEN /\ pend' = [pend EXCEPT ![c] = <<e.doc>>]
                   /\ pc' = [pc EXCEPT ![c] = "writing"]
                   /\ UNCHANGED <<locked, waiters, drainLog>>
              ELSE /\ Release([pc EXCEPT ![c] = "done"])
                   /\ drainLog' = Drained(c, e.ret, TRUE, e.doc, disk)
                   /\ UNCHANGED pend
    /\ UNCHANGED <<disk, op, reqOrder, writeFailed, wrote, doc0>>

\* Variant: a rejected write restores the in-memory document from the file.
WriteEndRollsBack(c, ok) ==
    /\ pc[c] = "writing"
    /\ disk' = IF ok THEN pend[c][1] ELSE disk
    /\ mem' = IF ok THEN mem ELSE disk
    /\ writeFailed' = (writeFailed \/ ~ok)
    /\ wrote' = [wrote EXCEPT ![c] = IF ok THEN "ok" ELSE "failed"]
    /\ pend' = [pend EXCEPT ![c] = <<>>]
    /\ LET r == IF ok THEN ret[c] ELSE OnWriteError(op[c])
       IN  /\ ret' = [ret EXCEPT ![c] = r]
           /\ drainLog' = Drained(c, r, ok, mem', disk')
    /\ Release([pc EXCEPT ![c] = "done"])
    /\ UNCHANGED <<clock, op, seen, reqOrder, enterOrder, applied, doc0>>

\* Variant: release() is called only after a successful write.
WriteEndHoldsOnError(c, ok) ==
    /\ pc[c] = "writing"
    /\ disk' = IF ok THEN pend[c][1] ELSE disk
    /\ writeFailed' = (writeFailed \/ ~ok)
    /\ wrote' = [wrote EXCEPT ![c] = IF ok THEN "ok" ELSE "failed"]
    /\ pend' = [pend EXCEPT ![c] = <<>>]
    /\ LET r == IF ok THEN ret[c] ELSE OnWriteError(op[c])
       IN  /\ ret' = [ret EXCEPT ![c] = r]
           /\ drainLog' = Drained(c, r, ok, mem, disk')
    /\ IF ok
       THEN Release([pc EXCEPT ![c] = "done"])
       ELSE pc' = [pc EXCEPT ![c] = "done"] /\ UNCHANGED <<locked, waiters>>
    /\ UNCHANGED <<mem, clock, op, seen, reqOrder, enterOrder, applied, doc0>>

\* db.write() completes: the file holds the serialised document, or the write
\* rejected and the catch block decides what the caller gets.  Then finally: release.
WriteEnd(c, ok) ==
    /\ pc[c] = "writing"
    /\ disk' = IF ok THEN pend[c][1] ELSE disk
    /\ writeFailed' = (writeFailed \/ ~ok)
    /\ wrote' = [wrote EXCEPT ![c] = IF ok THEN "ok" ELSE "failed"]
    /\ pend' = [pend EXCEPT ![c] = <<>>]
    /\ LET r == IF ok THEN ret[c] ELSE OnWriteError(op[c])
       IN  /\ ret' = [ret EXCEPT ![c] = r]
           /\ drainLog' = Drained(c, r, ok, mem, disk')
    /\ Release([pc EXCEPT ![c] = "done"])
    /\ UNCHANGED <<mem, clock, op, seen, reqOrder, enterOrder, applied, doc0>>

\* ------------------------------------------------- the store under API calls

FontA == Txt("Kh-Font", 7)

\* The accessor calls handler-side code issues, over small argument sets.
ApiOps ==
    {[op |-> "addOrUpdateUser", user |-> [id |-> u, first_name |-> "b", is_bot |-> FALSE]] : u \in 1..3}
    \cup {[op |-> "banUser", userId |-> 1, reason |-> Txt("spam", 4)]}
    \cup {[op |-> "unbanUser", userId |-> 1]}
    \cup {[op |-> "logDownload", userId |-> 1, fontName |-> FontA]}
    \cup {[op |-> "logUpload", userId |-> 1, fontName |-> FontA, status |-> "pending"]}
    \cup {[op |-> "addMessageToQueue", chatId |-> 1, text |-> Txt("hi", 2), isBroadcast |-> FALSE]}
    \cup {[op |-> "addMessageToQueue", chatId |-> 0, text |-> Txt("Hello", 5), isBroadcast |-> TRUE]}
    \cup {[op |-> "popAllMessagesFromQueue"]}
    \cup {[op |-> "cacheFileId", fontName |-> FontA, fileId |-> "f1"]}
    \cup {[op |-> "startBroadcastLog", message |-> Txt("Hello", 5), totalUsers |-> 2]}
    \cup {[op |-> "logBroadcastResult", success |-> TRUE, chatId |-> 1, errorMessage |-> Txt("", 0)]}
    \cup {[op |-> "logBroadcastResult", success |-> FALSE, chatId |-> 2, errorMessage |-> Txt("blocked", 7)]}
    \cup {[op |-> "endBroadcastLog"]}

UserRec(u, bot) ==
    [id |-> u, first_name |-> "a", is_bot |-> bot, lastSeen |-> 1, firstSeen |-> 1,
     activity |-> [downloads |-> <<>>, uploads |-> <<>>]]

\* A document an earlier run left in db.json: user 1 known and banned, one
\* message queued, no broadcast yet.
SeedDoc ==
    [defaultData EXCEPT
        !.users = Put(EmptyMap, 1, UserRec(1, FALSE)),
        !.bannedUsers = Put(EmptyMap, 1, [reason |-> Txt("old", 3), date |-> 1]),
        !.messageQueue = <<[chatId |-> 1, text |-> Txt("old", 3), isBroadcast |-> FALSE,
                            timestamp |-> 1]>>]

InitStore(d, now) ==
    /\ mem = d
    /\ disk = d
    /\ doc0 = d
    /\ clock = now
    /\ locked = FALSE
    /\ waiters = <<>>
    /\ pc = [c \in Callers |-> "idle"]
    /\ op = [c \in Callers |-> NoOp]
    /\ pend = [c \in Callers |-> <<>>]
    /\ ret = [c \in Callers |-> Undefined]
    /\ seen = [c \in Callers |-> <<>>]
    /\ reqOrder = <<>>
    /\ enterOrder = <<>>
    /\ applied = <<>>
    /\ writeFailed = FALSE
    /\ wrote = [c \in Callers |-> "none"]
    /\ drainLog = <<>>

\* No broadcast was interrupted and no read-only accessor was called yet.
NoCrash == [open |-> FALSE, k |-> 0]
NoRead == [q |-> "none"]

InitWorker(f) ==
    /\ restarts = 0
    /\ atCrash = NoCrash
    /\ lastRead = NoRead
    /\ frames = <<>>
    /\ isWorkerRunning = FALSE
    /\ wpc = "idle"
    /\ messagesToSend = <<>>
    /\ allUsers = <<>>
    /\ idx = 0
    /\ failSet = f
    /\ ticks = 0
    /\ sends = <<>>
    /\ logged = <<>>

\* After initializeDatabase: memory and file agree, on a fresh or an existing document.
Init ==
    /\ \E d \in {defaultData, SeedDoc} : InitStore(d, 2)
    /\ InitWorker({})

\* Callers are interchangeable: they are numbered in the order of their calls.
InTurn(c) == \A b \in Handlers : b < c => pc[b] # "idle"

Call(c) ==
    /\ pc[c] = "idle"
    /\ InTurn(c)
    /\ \E o \in ApiOps : Acquire(c, o)
    /\ UNCHANGED <<workerVars, auxVars>>

Resume(c) == Enter(c) /\ UNCHANGED <<workerVars, auxVars>>

WriteOk(c) == WriteEnd(c, TRUE) /\ UNCHANGED <<workerVars, auxVars>>

WriteFail(c) == WriteEnd(c, FALSE) /\ UNCHANGED <<workerVars, auxVars>>

Next ==
    \E c \in Handlers :
        \/ Call(c)
        \/ Resume(c)
        \/ WriteOk(c)
        \/ WriteFail(c)

Spec == Init /\ [][Next]_vars

\* The first two handler-side callers.
TwoCallers == {c \in Handlers : c <= 2}

\* --------------------------------------------- the queue close to its cap

\* A stored queue of n regular messages, oldest first.
StoredQueue(n) ==
    [i \in 1..n |-> [chatId |-> 1, text |-> Txt("old", 3), isBroadcast |-> FALSE,
                     timestamp |-> i]]

QueueOps ==
    {[op |-> "addMessageToQueue", chatId |-> 1, text |-> Txt("hi", 2), isBroadcast |-> FALSE],
     [op |-> "popAllMessagesFromQueue"]}

\* The store starts on a queue that is empty, at the trim size or at most the cap.
InitQueue ==
    /\ \E n \in {0, QUEUE_KEEP, QUEUE_CAP - 2, QUEUE_CAP - 1, QUEUE_CAP} :
          InitStore([defaultData EXCEPT !.messageQueue = StoredQueue(n)], QUEUE_CAP + 1)
    /\ InitWorker({})

\* A handler issues one of at most MaxEnqueues queue calls.
CallQueue(c) ==
    /\ pc[c] = "idle"
    /\ InTurn(c)
    /\ Len(reqOrder) < MaxEnqueues
    /\ \E o \in QueueOps : Acquire(c, o)
    /\ UNCHANGED <<workerVars, auxVars>>

\* The caller got its result and is free to issue another call.
Return(c) ==
    /\ c \in Handlers
    /\ pc[c] = "done"
    /\ pc' = [pc EXCEPT ![c] = "idle"]
    /\ op' = [op EXCEPT ![c] = NoOp]
    /\ ret' = [ret EXCEPT ![c] = Undefined]
    /\ seen' = [seen EXCEPT ![c] = <<>>]
    /\ wrote' = [wrote EXCEPT ![c] = "none"]
    /\ UNCHANGED <<mem, disk, clock, locked, waiters, pend, reqOrder, enterOrder, applied,
                   writeFailed, drainLog, doc0>>
    /\ UNCHANGED <<workerVars, auxVars>>

NextQueue ==
    \E c \in TwoCallers :
        \/ CallQueue(c)
        \/ Resume(c)
        \/ WriteOk(c)
        \/ WriteFail(c)
        \/ Return(c)

SpecQueue == InitQueue /\ [][NextQueue]_vars

\* ------------------------------------------ the queue worker of index.js

PopOp == [op |-> "popAllMessagesFromQueue"]

\* messagesToSend.find(m => m.isBroadcast)
HasBroadcast(batch) == \E i \in 1..Len(batch) : batch[i].isBroadcast

broadcastTask ==
    messagesToSend[CHOOSE i \in 1..Len(messagesToSend) :
                      /\ messagesToSend[i].isBroadcast
                      /\ \A j \in 1..(i - 1) : ~messagesToSend[j].isBroadcast]

\* Variant: bot accounts are not filtered out.
IsTargetWithBots(u) == u.id # ADMIN_ID /\ u.id # 0

\* allUsers.filter(u => u.id.toString() !== ADMIN_ID && !u.is_bot && u.id)
IsTarget(u) == u.id # ADMIN_ID /\ ~u.is_bot /\ u.id # 0

\* Variant: the recipients are filtered from the users known right now.
targetsLive == SelectSeq(getAllUsers(mem), IsTarget)

targets == SelectSeq(allUsers, IsTarget)

\* The stub transport: bot.sendMessage rejects for the chat ids of failSet.
SendSucceeds(chatId) == chatId \notin failSet

\* One bot.sendMessage call, as the transport sees it.
Attempt(kind, chatId, text) ==
    [kind |-> kind, chatId |-> chatId, text |-> text, ok |-> SendSucceeds(chatId),
     banned |-> isUserBanned(mem, chatId)]

\* Variant: the callback returns without clearing its flag.
CycleEndsKeepsFlag ==
    /\ isWorkerRunning' = TRUE
    /\ wpc' = "idle"

\* finally { isWorkerRunning = false; } of the timer callback
CycleEnds ==
    /\ isWorkerRunning' = FALSE
    /\ wpc' = "idle"

\* Variant: the timer callback starts a cycle whenever the worker awaits nothing
\* of the store, whether or not a cycle is running.
TickReenters ==
    /\ ticks < MaxTicks
    /\ isWorkerRunning' = TRUE
    /\ ticks' = ticks + 1
    /\ wpc' = "pop"
    /\ Acquire(Worker, PopOp)
    /\ UNCHANGED <<messagesToSend, allUsers, idx, failSet, sends, logged>>
    /\ UNCHANGED auxVars

\* The timer fires while no cycle runs: the worker starts draining the queue.
Tick ==
    /\ wpc = "idle"
    /\ ~isWorkerRunning
    /\ ticks < MaxTicks
    /\ isWorkerRunning' = TRUE
    /\ ticks' = ticks + 1
    /\ wpc' = "pop"
    /\ Acquire(Worker, PopOp)
    /\ UNCHANGED <<messagesToSend, allUsers, idx, failSet, sends, logged>>
    /\ UNCHANGED auxVars

\* The timer fires while a cycle runs: if (isWorkerRunning) return;
TickSkipped ==
    /\ isWorkerRunning
    /\ UNCHANGED vars

\* index of the first message at or after i that has a chatId and a text
NextValid(batch, i) ==
    LET ok == {j \in i..Len(batch) : batch[j].chatId # 0 /\ batch[j].text.len > 0}
    IN  IF ok = {} THEN Len(batch) + 1 ELSE CHOOSE j \in ok : \A k \in ok : j <= k

\* handleRegularMessages, from message i on: skip invalid entries, send the next
\* valid one, or return to the timer callback when none is left.
RegularFrom(batch, i, log) ==
    LET j == NextValid(batch, i)
    IN  /\ idx' = j
        /\ IF j > Len(batch)
           THEN /\ CycleEnds
                /\ sends' = log
           ELSE /\ wpc' = "rsend"
                /\ sends' = Append(log, Attempt("regular", batch[j].chatId, batch[j].text))
                /\ UNCHANGED isWorkerRunning

\* popAllMessagesFromQueue returned: an empty batch ends the cycle; a batch with
\* a broadcast task goes to handleBroadcastMessage, which reads the users; any
\* other batch goes to handleRegularMessages.
PopDone ==
    /\ wpc = "pop"
    /\ pc[Worker] = "done"
    /\ LET batch == ret[Worker].v
       IN  /\ messagesToSend' = batch
           /\ IF batch = <<>>
              THEN /\ CycleEnds
                   /\ UNCHANGED <<allUsers, idx, sends, logged>>
              ELSE IF HasBroadcast(batch)
              THEN /\ allUsers' = getAllUsers(mem)
                   /\ wpc' = "users"
                   /\ sends' = <<>>
                   /\ logged' = <<>>
                   /\ UNCHANGED <<isWorkerRunning, idx>>
              ELSE /\ RegularFrom(batch, 1, <<>>)
                   /\ logged' = <<>>
                   /\ UNCHANGED allUsers
    /\ UNCHANGED <<failSet, ticks>>
    /\ UNCHANGED storeVars
    /\ UNCHANGED auxVars

\* await db.startBroadcastLog(broadcastTask.text, targets.length)
StartLog ==
    /\ wpc = "users"
    /\ wpc' = "start"
    /\ Acquire(Worker, [op |-> "startBroadcastLog", message |-> broadcastTask.text,
                        totalUsers |-> Len(targets)])
    /\ UNCHANGED <<isWorkerRunning, messagesToSend, allUsers, idx, failSet, ticks, sends, logged>>
    /\ UNCHANGED auxVars

\* Variant: the loop is left at the first position.
BroadcastStopsEarly(i) ==
    /\ idx' = i
    /\ IF i > Min(1, Len(targets))
       THEN /\ wpc' = "end"
            /\ Acquire(Worker, [op |-> "endBroadcastLog"])
            /\ UNCHANGED sends
       ELSE /\ wpc' = "send"
            /\ sends' = Append(sends, Attempt("broadcast", targets[i].id, broadcastTask.text))
            /\ UNCHANGED storeVars

\* The head of for (const user of targets), at position i: send to the next
\* user, or leave the loop and call db.endBroadcastLog().
BroadcastFrom(i) ==
    /\ idx' = i
    /\ IF i > Len(targets)
       THEN /\ wpc' = "end"
            /\ Acquire(Worker, [op |-> "endBroadcastLog"])
            /\ UNCHANGED sends
       ELSE /\ wpc' = "send"
            /\ sends' = Append(sends, Attempt("broadcast", targets[i].id, broadcastTask.text))
            /\ UNCHANGED storeVars

\* startBroadcastLog returned: the loop starts.
StartDone ==
    /\ wpc = "start"
    /\ pc[Worker] = "done"
    /\ BroadcastFrom(1)
    /\ UNCHANGED <<isWorkerRunning, messagesToSend, allUsers, failSet, ticks, logged>>
    /\ UNCHANGED auxVars

\* Variant: a rejected send leaves the loop and closes the record.
SendDoneAbortsOnFailure ==
    /\ wpc = "send"
    /\ LET a == sends[Len(sends)]
       IN  IF a.ok
           THEN /\ Acquire(Worker, [op |-> "logBroadcastResult", success |-> a.ok,
                                    chatId |-> a.chatId, errorMessage |-> Txt("", 0)])
                /\ logged' = Append(logged, [success |-> a.ok, chatId |-> a.chatId])
                /\ wpc' = "log"
           ELSE /\ Acquire(Worker, [op |-> "endBroadcastLog"])
                /\ wpc' = "end"
                /\ UNCHANGED logged
    /\ UNCHANGED <<isWorkerRunning, messagesToSend, allUsers, idx, failSet, ticks, sends>>
    /\ UNCHANGED auxVars

\* bot.sendMessage settled: db.logBroadcastResult(true, id) after a success,
\* db.logBroadcastResult(false, id, error.message) in the catch block.
SendDone ==
    /\ wpc = "send"
    /\ LET a == sends[Len(sends)]
       IN  /\ Acquire(Worker, [op |-> "logBroadcastResult", success |-> a.ok, chatId |-> a.chatId,
                               errorMessage |-> IF a.ok THEN Txt("", 0) ELSE Txt("blocked", 7)])
           /\ logged' = Append(logged, [success |-> a.ok, chatId |-> a.chatId])
    /\ wpc' = "log"
    /\ UNCHANGED <<isWorkerRunning, messagesToSend, allUsers, idx, failSet, ticks, sends>>
    /\ UNCHANGED auxVars

\* Variant: the next user is served as soon as the outcome is logged.
LogDoneNoDelay ==
    /\ wpc = "log"
    /\ pc[Worker] = "done"
    /\ BroadcastFrom(idx + 1)
    /\ UNCHANGED <<isWorkerRunning, messagesToSend, allUsers, failSet, ticks, logged>>
    /\ UNCHANGED auxVars

\* logBroadcastResult returned: the rate-limit timer is started.
LogDone ==
    /\ wpc = "log"
    /\ pc[Worker] = "done"
    /\ wpc' = "delay"
    /\ UNCHANGED <<isWorkerRunning, messagesToSend, allUsers, idx, failSet, ticks, sends, logged>>
    /\ UNCHANGED storeVars
    /\ UNCHANGED auxVars

\* The BROADCAST_DELAY timer fired: next user.
DelayDone ==
    /\ wpc = "delay"
    /\ BroadcastFrom(idx + 1)
    /\ UNCHANGED <<isWorkerRunning, messagesToSend, allUsers, failSet, ticks, logged>>
    /\ UNCHANGED auxVars

\* endBroadcastLog returned: handleBroadcastMessage and the cycle end.
EndDone ==
    /\ wpc = "end"
    /\ pc[Worker] = "done"
    /\ CycleEnds
    /\ UNCHANGED <<messagesToSend, allUsers, idx, failSet, ticks, sends, logged>>
    /\ UNCHANGED storeVars
    /\ UNCHANGED auxVars

\* Variant: a rejected send of a regular message ends the cycle.
RSendDoneStopsOnFailure ==
    /\ wpc = "rsend"
    /\ IF sends[Len(sends)].ok
       THEN wpc' = "rdelay" /\ UNCHANGED isWorkerRunning
       ELSE CycleEnds
    /\ UNCHANGED <<messagesToSend, allUsers, idx, failSet, ticks, sends, logged>>
    /\ UNCHANGED storeVars
    /\ UNCHANGED auxVars

\* bot.sendMessage of a regular message settled (a failure is only logged).
RSendDone ==
    /\ wpc = "rsend"
    /\ wpc' = "rdelay"
    /\ UNCHANGED <<isWorkerRunning, messagesToSend, allUsers, idx, failSet, ticks, sends, logged>>
    /\ UNCHANGED storeVars
    /\ UNCHANGED auxVars

\* The 100 ms timer fired: next message.
RDelayDone ==
    /\ wpc = "rdelay"
    /\ RegularFrom(messagesToSend, idx + 1, sends)
    /\ UNCHANGED <<messagesToSend, allUsers, failSet, ticks, logged>>
    /\ UNCHANGED storeVars
    /\ UNCHANGED auxVars

\* The worker's own accessor calls go through the same mutex.
WorkerResume == Enter(Worker) /\ UNCHANGED <<workerVars, auxVars>>
WorkerWriteOk == WriteEnd(Worker, TRUE) /\ UNCHANGED <<workerVars, auxVars>>
WorkerWriteFail == WriteEnd(Worker, FALSE) /\ UNCHANGED <<workerVars, auxVars>>

WorkerStep ==
    \/ Tick
    \/ TickSkipped
    \/ PopDone
    \/ StartLog
    \/ StartDone
    \/ SendDone
    \/ LogDone
    \/ DelayDone
    \/ EndDone
    \/ RSendDone
    \/ RDelayDone
    \/ WorkerResume
    \/ WorkerWriteOk
    \/ WorkerWriteFail

\* What handlers and the admin panel do while the worker runs: a new user
\* writes to the bot, the admin bans or unbans, messages and broadcasts are queued.
HandlerOps ==
    {[op |-> "addOrUpdateUser", user |-> [id |-> 4, first_name |-> "b", is_bot |-> FALSE]],
     [op |-> "banUser", userId |-> 2, reason |-> Txt("spam", 4)],
     [op |-> "unbanUser", userId |-> 3],
     [op |-> "addMessageToQueue", chatId |-> 2, text |-> Txt("hi", 2), isBroadcast |-> FALSE],
     [op |-> "addMessageToQueue", chatId |-> 0, text |-> Txt("Hello", 5), isBroadcast |-> TRUE]}

CallHandler(c) ==
    /\ pc[c] = "idle"
    /\ InTurn(c)
    /\ \E o \in HandlerOps : Acquire(c, o)
    /\ UNCHANGED <<workerVars, auxVars>>

\* A broadcast an earlier run completed.
OldBroadcast ==
    [message |-> Txt("Old", 3), total |-> 3, sent |-> 2, failed |-> 1, startedAt |-> 1,
     completedAt |-> 1, errors |-> <<[chatId |-> 2, error |-> Txt("blocked", 7)]>>]

\* The admin (1), users 2 and 3 and a bot account (5) are known, user 3 is
\* banned, a broadcast is queued and an older broadcast is on record.
BroadcastDoc ==
    [defaultData EXCEPT
        !.users = [u \in {1, 2, 3, 5} |-> UserRec(u, u = 5)],
        !.bannedUsers = Put(EmptyMap, 3, [reason |-> Txt("old", 3), date |-> 1]),
        !.messageQueue = <<[chatId |-> 0, text |-> Txt("Hello", 5), isBroadcast |-> TRUE,
                            timestamp |-> 1]>>,
        !.broadcastResults = <<OldBroadcast>>]

InitBroadcast ==
    /\ \E d \in {defaultData, BroadcastDoc} : InitStore(d, 2)
    /\ \E f \in {{}, {2}, {3, 4}, {2, 3, 4}} : InitWorker(f)

NextBroadcast ==
    \/ WorkerStep
    \/ \E c \in TwoCallers :
          \/ CallHandler(c)
          \/ Resume(c)
          \/ WriteOk(c)
          \/ WriteFail(c)

SpecBroadcast == InitBroadcast /\ [][NextBroadcast]_vars

\* ------------------------------------------------- a bulk broadcast

\* The admin (1) and n other users are known and a broadcast is queued.
BulkDoc(n) ==
    [defaultData EXCEPT
        !.users = [u \in 1..(n + 1) |-> UserRec(u, FALSE)],
        !.messageQueue = <<[chatId |-> 0, text |-> Txt("Hello", 5), isBroadcast |-> TRUE,
                            timestamp |-> 1]>>]

\* Two regular messages are queued, one of them without a chat id.
RegularDoc ==
    [defaultData EXCEPT
        !.users = [u \in 1..2 |-> UserRec(u, FALSE)],
        !.messageQueue = <<[chatId |-> 0, text |-> Txt("lost", 4), isBroadcast |-> FALSE,
                            timestamp |-> 1],
                           [chatId |-> 2, text |-> Txt("hi", 2), isBroadcast |-> FALSE,
                            timestamp |-> 1]>>]

\* Stub transports: the first k, the last k or every second one of n recipients fail.
FirstFail(k) == {u \in 2..(k + 1) : TRUE}
LastFail(n, k) == {u \in (n + 2 - k)..(n + 1) : TRUE}
EvenFail(n) == {u \in 2..(n + 1) : u % 2 = 0}

BulkSizes == {0, 1, 2, ERROR_CAP, MaxRecipients}

BulkFailures(n) ==
    {FirstFail(k) : k \in {0, 1, ERROR_CAP - 1, ERROR_CAP, ERROR_CAP + 1, n} \cap 0..n}
    \cup {LastFail(n, k) : k \in {1, ERROR_CAP, ERROR_CAP + 1} \cap 0..n}
    \cup {EvenFail(n)}

InitBulk ==
    \/ /\ \E n \in BulkSizes :
             /\ InitStore(BulkDoc(n), 2)
             /\ \E f \in BulkFailures(n) : InitWorker(f)
    \/ /\ InitStore(RegularDoc, 2)
       /\ InitWorker({})

SpecBulk == InitBulk /\ [][WorkerStep]_vars

\* ------------------------------------------- the process stops and restarts

\* handleBroadcastMessage is between the return of startBroadcastLog and the
\* return of endBroadcastLog.
BroadcastOpen ==
    \/ wpc = "start" /\ pc[Worker] = "done"
    \/ wpc \in {"send", "log", "delay"}
    \/ wpc = "end" /\ pc[Worker] # "done"

\* Number of logBroadcastResult calls of the running broadcast that have returned.
OutcomesLogged ==
    IF wpc = "log" /\ pc[Worker] # "done" THEN Len(logged) - 1 ELSE Len(logged)

\* The process is stopped at any moment and started again: the in-memory
\* document, the mutex, every pending call and the worker's cycle are gone;
\* a db.write() in flight is lost; initializeDatabase reads db.json and the
\* timer of the worker is armed again.
Restart ==
    /\ restarts < MaxRestarts
    /\ restarts' = restarts + 1
    /\ atCrash' = [open |-> BroadcastOpen, k |-> IF BroadcastOpen THEN OutcomesLogged ELSE 0]
    /\ mem' = disk
    /\ doc0' = disk
    /\ locked' = FALSE
    /\ waiters' = <<>>
    /\ pc' = [c \in Callers |-> "idle"]
    /\ op' = [c \in Callers |-> NoOp]
    /\ pend' = [c \in Callers |-> <<>>]
    /\ ret' = [c \in Callers |-> Undefined]
    /\ seen' = [c \in Callers |-> <<>>]
    /\ wrote' = [c \in Callers |-> "none"]
    /\ reqOrder' = <<>>
    /\ enterOrder' = <<>>
    /\ applied' = <<>>
    /\ isWorkerRunning' = FALSE
    /\ wpc' = "idle"
    /\ messagesToSend' = <<>>
    /\ allUsers' = <<>>
    /\ idx' = 0
    /\ sends' = <<>>
    /\ logged' = <<>>
    /\ frames' = <<>>
    /\ UNCHANGED <<disk, clock, writeFailed, drainLog, failSet, ticks, lastRead>>

\* What the admin panel does meanwhile: a regular message is queued, a user is banned.
RestartOps ==
    {[op |-> "addMessageToQueue", chatId |-> 2, text |-> Txt("hi", 2), isBroadcast |-> FALSE],
     [op |-> "banUser", userId |-> 2, reason |-> Txt("spam", 4)]}

CallPanel(c) ==
    /\ pc[c] = "idle"
    /\ InTurn(c)
    /\ \E o \in RestartOps : Acquire(c, o)
    /\ UNCHANGED <<workerVars, auxVars>>

InitRestart ==
    /\ InitStore(BroadcastDoc, 2)
    /\ \E f \in {{}, {2}} : InitWorker(f)

NextRestart ==
    \/ WorkerStep
    \/ Restart
    \/ \E c \in {1} :
          \/ CallPanel(c)
          \/ Resume(c)
          \/ WriteOk(c)
          \/ WriteFail(c)

SpecRestart == InitRestart /\ [][NextRestart]_vars

\* ------------------------------------- malformed input and read-only calls

\* A number passed where the text is expected.
NotAString == Txt("42", Missing)

\* The checks ahead of mutex.acquire(): addOrUpdateUser without a user or an
\* id, addMessageToQueue without a text or with a text that is not a string.
Rejects(o) ==
    \/ o.op = "addOrUpdateUser" /\ o.user.id = Missing
    \/ o.op = "addMessageToQueue" /\ (o.text.len = 0 \/ o.text = NotAString)

\* Calls with a malformed argument: a missing user id, an empty or non-string text.
MalformedOps ==
    {[op |-> "addOrUpdateUser", user |-> [id |-> Missing, first_name |-> "b", is_bot |-> FALSE]],
     [op |-> "addMessageToQueue", chatId |-> 1, text |-> Txt("", 0), isBroadcast |-> FALSE],
     [op |-> "addMessageToQueue", chatId |-> 1, text |-> NotAString, isBroadcast |-> FALSE],
     [op |-> "banUser", userId |-> Missing, reason |-> Txt("spam", 4)],
     [op |-> "unbanUser", userId |-> Missing],
     [op |-> "logDownload", userId |-> Missing, fontName |-> FontA],
     [op |-> "logUpload", userId |-> Missing, fontName |-> FontA, status |-> "pending"]}

LongText == Txt("long", TEXT_LIMIT + 1)

InputOps ==
    MalformedOps
    \cup {[op |-> "addMessageToQueue", chatId |-> 1, text |-> LongText, isBroadcast |-> FALSE],
          [op |-> "addMessageToQueue", chatId |-> 1, text |-> Txt("full", TEXT_LIMIT),
           isBroadcast |-> FALSE],
          [op |-> "addOrUpdateUser", user |-> [id |-> 2, first_name |-> "b", is_bot |-> FALSE]],
          [op |-> "banUser", userId |-> 2, reason |-> Txt("spam", 4)],
          [op |-> "unbanUser", userId |-> 1],
          [op |-> "cacheFileId", fontName |-> FontA, fileId |-> "f1"],
          [op |-> "startBroadcastLog", message |-> Txt("Hello", 5), totalUsers |-> 2],
          [op |-> "saveData", data |-> defaultData]}

\* The accessor returns before mutex.acquire(): a warning is logged, nothing else.
ShortCircuit(c, o) ==
    /\ op' = [op EXCEPT ![c] = o]
    /\ pc' = [pc EXCEPT ![c] = "done"]
    /\ ret' = [ret EXCEPT ![c] = Undefined]
    /\ UNCHANGED <<mem, disk, clock, locked, waiters, pend, seen, reqOrder, enterOrder, applied,
                   writeFailed, wrote, drainLog, doc0>>

CallInput(c) ==
    /\ pc[c] = "idle"
    /\ InTurn(c)
    /\ \E o \in InputOps : IF Rejects(o) THEN ShortCircuit(c, o) ELSE Acquire(c, o)
    /\ UNCHANGED <<workerVars, auxVars>>

\* Calls of the read-only accessors, for known and unknown keys.
Queries ==
    {[q |-> "findUserById", userId |-> u] : u \in {1, 9}}
    \cup {[q |-> "isUserBanned", userId |-> u] : u \in {1, 9}}
    \cup {[q |-> "getCachedFileId", fontName |-> f] : f \in {FontA, Txt("None", 4)}}
    \cup {[q |-> "getBanList"], [q |-> "getBroadcastStatus"], [q |-> "getAllUsers"]}

\* What the read-only accessor yields on document d.
Answer(d, q) ==
    CASE q.q = "findUserById" -> findUserById(d, q.userId)
      [] q.q = "isUserBanned" -> isUserBanned(d, q.userId)
      [] q.q = "getCachedFileId" -> getCachedFileId(d, q.fontName)
      [] q.q = "getBanList" -> getBanList(d)
      [] q.q = "getBroadcastStatus" -> getBroadcastStatus(d)
      [] q.q = "getAllUsers" -> getAllUsers(d)

\* A read-only accessor is called: it is synchronous, reads db.data and
\* touches neither the mutex nor the document.
Read ==
    /\ \E q \in Queries :
          lastRead' = [q |-> q.q, arg |-> q, v |-> Answer(mem, q), locked |-> locked]
    /\ UNCHANGED <<storeVars, workerVars, restarts, atCrash, frames>>

InitInput ==
    /\ \E d \in {defaultData, SeedDoc} : InitStore(d, 2)
    /\ InitWorker({})

NextInput ==
    \/ Read
    \/ \E c \in TwoCallers :
          \/ CallInput(c)
          \/ Resume(c)
          \/ WriteOk(c)
          \/ WriteFail(c)

SpecInput == InitInput /\ [][NextInput]_vars

\* ------------------------------------------------------------------ claims

\* Every caller is outside a call: nothing is queued, held or being written.
Quiet == \A c \in Handlers : pc[c] \in {"idle", "done"}

Finished == {c \in Handlers : pc[c] = "done"}

\* All orders in which the calls of S can be run one after another.
Orders(S) == {f \in [1..Cardinality(S) -> S] : \A i, j \in DOMAIN f : i # j => f[i] # f[j]}

\* The document after running the calls of `order` one at a time from d.
RECURSIVE Sequential(_, _, _)
Sequential(d, order, now) ==
    IF order = <<>> THEN d
    ELSE Sequential(Apply(d, op[Head(order)], now).doc, Tail(order), now + 1)

\* addOrUpdateUser calls that are the only one for their user id.
SoleUpserts ==
    {c \in Finished : /\ op[c].op = "addOrUpdateUser"
                      /\ \A b \in Finished \ {c} :
                            op[b].op = "addOrUpdateUser" => op[b].user.id # op[c].user.id}

\* C1: when concurrently issued mutating accessor calls have all finished and
\* every write succeeded, the persisted document (and the in-memory one) is the
\* result of running the same calls one after another in some order; every
\* user upserted by a single call is present with the fields supplied.
C1_Serializable ==
    (Quiet /\ ~writeFailed) =>
        /\ mem = disk
        /\ \E order \in Orders(Finished) : disk = Sequential(doc0, order, 2)
        /\ \A c \in SoleUpserts :
              /\ op[c].user.id \in DOMAIN disk.users
              /\ disk.users[op[c].user.id].first_name = op[c].user.first_name
              /\ disk.users[op[c].user.id].is_bot = op[c].user.is_bot

\* Three overlapping addOrUpdateUser calls for three different users have all
\* finished after two of them waited for the mutex together.
C1_Witness ==
    /\ Quiet /\ ~writeFailed
    /\ Cardinality(SoleUpserts) = 3
    /\ DOMAIN disk.users = {1, 2, 3}
    /\ Len(applied) = 3

InCritical == {c \in Callers : pc[c] \in {"acquired", "writing"}}

\* C2: at most one accessor is between mutex.acquire() and release(); the lock
\* is held exactly when there is such an accessor, and callers queue only
\* while it is held.
C2_OneWriter ==
    /\ Cardinality(InCritical) <= 1
    /\ locked <=> InCritical # {}
    /\ waiters # <<>> => locked
    /\ \A c \in Callers : pend[c] # <<>> => pc[c] = "writing"

\* One accessor's write is pending while two other calls wait for the mutex.
C2_Witness ==
    /\ \E c \in Handlers : pc[c] = "writing"
    /\ Len(waiters) = 2

IsPrefix(p, q) == Len(p) <= Len(q) /\ \A i \in 1..Len(p) : p[i] = q[i]

\* C3: critical sections begin in the order of the mutex.acquire() calls, and
\* when one begins every earlier one has finished its write and released.
C3_ArrivalOrder ==
    /\ IsPrefix(enterOrder, reqOrder)
    /\ \A i \in 1..(Len(enterOrder) - 1) : pc[enterOrder[i]] = "done"

\* The third caller's critical section began after it queued behind the second.
C3_Witness ==
    /\ reqOrder = <<1, 2, 3>>
    /\ enterOrder = <<1, 2, 3>>
    /\ pc[3] = "writing"
    /\ op[1].op = "banUser" /\ op[2].op = "addMessageToQueue"

Timestamps(q) == [i \in 1..Len(q) |-> q[i].timestamp]

Ascending(t) == \A i, j \in 1..Len(t) : i < j => t[i] < t[j]

Entries(q) == {q[i] : i \in 1..Len(q)}

\* The drain of caller b began right after the drain of caller a.
Consecutive(a, b) ==
    \E i \in 1..(Len(enterOrder) - 1) : enterOrder[i] = a /\ enterOrder[i + 1] = b

\* What holds of every drain whether or not its write succeeded.
DrainsDisjoint ==
    /\ \A i \in 1..Len(drainLog) : Ascending(Timestamps(drainLog[i].returned))
    /\ \A i, j \in 1..Len(drainLog) :
          i # j => Entries(drainLog[i].returned) \cap Entries(drainLog[j].returned) = {}
    /\ \A i, j \in 1..Len(drainLog) :
          Consecutive(drainLog[i].caller, drainLog[j].caller) => drainLog[j].returned = <<>>
    /\ \A c \in Handlers :
          (pc[c] = "writing" /\ op[c].op = "popAllMessagesFromQueue") => mem.messageQueue = <<>>

C5_QueueBounded ==
    /\ Len(mem.messageQueue) <= QUEUE_CAP
    /\ Len(disk.messageQueue) <= QUEUE_CAP
    /\ \A c \in Handlers :
          (pc[c] = "writing" /\ op[c].op = "addMessageToQueue") =>
              LET q == seen[c]
                  m == mem.messageQueue
                  n == IF Len(q) >= QUEUE_CAP THEN QUEUE_KEEP + 1 ELSE Len(q) + 1
              IN  /\ Len(m) = n
                  /\ m[n].chatId = op[c].chatId
                  /\ m[n].isBroadcast = op[c].isBroadcast
                  /\ m[n].text.s = op[c].text.s
                  /\ m[n].timestamp = clock - 1
                  /\ \A i \in 1..(n - 1) : m[i] = q[Len(q) - (n - 1) + i]

\* An enqueue found the queue at its cap: the oldest half is gone and the new
\* entry is last.
C5_Witness ==
    \E c \in Handlers :
        /\ pc[c] = "writing" /\ op[c].op = "addMessageToQueue"
        /\ Len(seen[c]) = QUEUE_CAP
        /\ Len(mem.messageQueue) = QUEUE_KEEP + 1
        /\ mem.messageQueue[1].timestamp = QUEUE_KEEP + 1

\* The broadcast record in memory (only read where a record exists).
Record == mem.broadcastResults[1]

\* The worker is inside handleBroadcastMessage and its startBroadcastLog has
\* set up the record of this broadcast.
BroadcastStarted ==
    \/ wpc = "start" /\ pc[Worker] \in {"writing", "done"}
    \/ wpc \in {"send", "log", "delay", "end"}

\* The worker has closed the record and left handleBroadcastMessage.
BroadcastOver ==
    /\ wpc = "idle"
    /\ messagesToSend # <<>>
    /\ HasBroadcast(messagesToSend)

Failures == Cardinality({i \in 1..Len(sends) : ~sends[i].ok})

\* C7: from the moment startBroadcastLog has set up the record until the
\* worker calls endBroadcastLog, completedAt is null; whenever it is set,
\* every recipient has had its attempt and its outcome logged.
C7_CompletedAfterAll ==
    /\ (BroadcastStarted /\ (wpc # "end" \/ pc[Worker] \in {"waiting", "acquired"})) =>
          Record.completedAt = NullTime
    /\ ((BroadcastStarted \/ BroadcastOver) /\ Record.completedAt # NullTime) =>
          /\ Len(sends) = Len(targets)
          /\ Len(logged) = Len(targets)

\* A broadcast over two recipients is over and its record is closed.
C7_Witness ==
    /\ BroadcastOver
    /\ Len(targets) = 2
    /\ Len(sends) = 2
    /\ Record.completedAt # NullTime
    /\ Record.startedAt # 1

\* C8 as stated: the worker never sends the broadcast to a user who is in
\* bannedUsers at that moment, and the total of a fresh record counts no
\* banned user.
C8_NoSendToBanned ==
    /\ \A i \in 1..Len(sends) : sends[i].kind = "broadcast" => ~sends[i].banned
    /\ (wpc = "start" /\ pc[Worker] = "writing") =>
          Record.total = Cardinality({i \in 1..Len(allUsers) :
                                         /\ allUsers[i].id # ADMIN_ID
                                         /\ ~allUsers[i].is_bot
                                         /\ ~isUserBanned(mem, allUsers[i].id)})

\* C9: the users read when the task is handled are known users and include
\* every user of the initial document; the recipients are those users without
\* the admin and without bot accounts, in getAllUsers order; once
\* startBroadcastLog has run the record is that of a fresh broadcast, whatever
\* record was there before.
C9_FreshRecord ==
    /\ wpc \in {"users", "start", "send", "log", "delay", "end"} =>
          /\ {targets[i].id : i \in 1..Len(targets)} =
                {allUsers[i].id : i \in {j \in 1..Len(allUsers) :
                                            allUsers[j].id # ADMIN_ID /\ ~allUsers[j].is_bot}}
          /\ \A i, j \in 1..Len(targets) : i < j => targets[i].id < targets[j].id
          /\ \A i \in 1..Len(allUsers) : allUsers[i].id \in DOMAIN mem.users
          /\ \A u \in DOMAIN doc0.users : \E i \in 1..Len(allUsers) : allUsers[i] = doc0.users[u]
    /\ (wpc = "start" /\ pc[Worker] \in {"writing", "done"}) =>
          /\ Record.total = Len(targets)
          /\ Record.sent = 0
          /\ Record.failed = 0
          /\ Record.errors = <<>>
          /\ Record.completedAt = NullTime
          /\ Record.message.s = broadcastTask.text.s
          /\ Record.startedAt > 1

\* startBroadcastLog has just replaced the record of the older broadcast; two
\* of the four known users are recipients.
C9_Witness ==
    /\ wpc = "start" /\ pc[Worker] = "writing"
    /\ doc0.broadcastResults = <<OldBroadcast>>
    /\ Len(allUsers) = 4
    /\ Len(targets) = 2
    /\ Record.total = 2

\* C10: the k-th send attempt goes to the k-th recipient, whatever happened
\* to the earlier ones; every attempt is reported by one logBroadcastResult
\* call with its outcome before the next attempt; when the broadcast is over
\* every recipient has had its attempt.
C10_LoopNeverAborts ==
    (BroadcastStarted \/ BroadcastOver) =>
        /\ Len(sends) <= Len(targets)
        /\ \A i \in 1..Len(sends) :
              /\ sends[i].kind = "broadcast"
              /\ sends[i].chatId = targets[i].id
        /\ Len(logged) = IF wpc = "send" THEN Len(sends) - 1 ELSE Len(sends)
        /\ \A i \in 1..Len(logged) :
              /\ logged[i].chatId = sends[i].chatId
              /\ logged[i].success = sends[i].ok
        /\ wpc \in {"send", "log", "delay"} => Len(sends) = idx
        /\ (wpc = "end" \/ BroadcastOver) => Len(sends) = Len(targets)

\* The send to the first recipient failed and the second recipient was still
\* sent to, successfully.
C10_Witness ==
    /\ BroadcastOver
    /\ Len(sends) = 2
    /\ ~sends[1].ok
    /\ sends[2].ok
    /\ Len(logged) = 2

\* C6: when a broadcast is over, with R recipients of which F sends failed,
\* the record has sent + failed = R, failed = F, sent = R - F and
\* min(F, ERROR_CAP) errors, which are the first failed recipients in order.
C6_Bookkeeping ==
    BroadcastOver =>
        /\ Len(sends) = Len(targets)
        /\ Record.total = Len(targets)
        /\ Record.sent + Record.failed = Len(targets)
        /\ Record.failed = Failures
        /\ Record.sent = Len(targets) - Failures
        /\ Len(Record.errors) = Min(Failures, ERROR_CAP)
        /\ \A i \in 1..Len(Record.errors) :
              /\ Record.errors[i].chatId \in failSet
              /\ Cardinality({j \in 1..Len(sends) :
                                 ~sends[j].ok /\ sends[j].chatId <= Record.errors[i].chatId}) = i

\* A broadcast is over in which more sends failed than the error list takes,
\* and some succeeded.
C6_Witness ==
    /\ BroadcastOver
    /\ Failures = ERROR_CAP + 1
    /\ Len(targets) = MaxRecipients
    /\ Record.sent = MaxRecipients - ERROR_CAP - 1
    /\ Len(Record.errors) = ERROR_CAP

\* The broadcast record in db.json.
DiskRecord == disk.broadcastResults[1]

\* C11 as stated: once logBroadcastResult has returned for the k-th recipient,
\* the persisted record counts k outcomes.
C11_ProgressDurable ==
    (wpc = "delay" /\ Len(logged) > 0) =>
        /\ disk.broadcastResults # <<>>
        /\ DiskRecord.sent + DiskRecord.failed = Len(logged)

\* C13 as stated: when the db.write() of startBroadcastLog or logBroadcastResult
\* has rejected, the worker's next step is the call of endBroadcastLog, and no
\* further recipient is sent to.
C13_AbortOnPersistFailure ==
    [][(/\ wpc \in {"start", "log"}
        /\ pc[Worker] = "done"
        /\ wrote[Worker] = "failed"
        /\ wpc' # wpc)
       => (wpc' = "end" /\ sends' = sends)]_vars

\* C14 as stated: when a cycle has ended, every entry of the drained batch
\* was dispatched: a regular entry was sent to its chatId, a broadcast entry
\* was the task of a broadcast.
C14_EveryEntryDispatched ==
    (wpc = "idle" /\ messagesToSend # <<>>) =>
        \A i \in 1..Len(messagesToSend) :
            LET m == messagesToSend[i]
            IN  IF m.isBroadcast
                THEN \A j \in 1..(i - 1) : ~messagesToSend[j].isBroadcast
                ELSE \E j \in 1..Len(sends) :
                        /\ sends[j].kind = "regular"
                        /\ sends[j].chatId = m.chatId
                        /\ sends[j].text = m.text

\* C12 as stated: after a restart that interrupted a broadcast with k logged
\* outcomes, the record is open with sent + failed = k, and the worker neither
\* sends that broadcast again nor touches its record.
C12_NotResumed ==
    (restarts > 0 /\ atCrash.open) =>
        /\ mem.broadcastResults # <<>>
        /\ Record.completedAt = NullTime
        /\ Record.sent + Record.failed = atCrash.k
        /\ wpc \notin {"users", "start", "send", "log", "delay", "end"}
        /\ \A i \in 1..Len(sends) : sends[i].kind # "broadcast"

\* The accessors C15 names: every mutating accessor but the drain.
Propagating ==
    {"addOrUpdateUser", "banUser", "unbanUser", "addMessageToQueue", "saveData", "logDownload",
     "logUpload", "cacheFileId", "startBroadcastLog", "logBroadcastResult", "endBroadcastLog"}

\* C15 as stated: a call of any of these accessors whose db.write() rejected
\* ends by throwing to its caller.
C15_WriteFailureReachesCaller ==
    \A c \in Callers :
        (pc[c] = "done" /\ wrote[c] = "failed" /\ op[c].op \in Propagating) => ret[c] = Threw

\* C16: an addMessageToQueue call whose db.write() rejected throws to its
\* caller; a popAllMessagesFromQueue call always yields a list, the empty one
\* when its write rejected; no accessor call of the worker ever throws.
C16_EnqueueThrowsDrainNever ==
    /\ \A c \in Callers :
          pc[c] = "done" =>
             /\ (op[c].op = "addMessageToQueue" /\ wrote[c] = "failed") => ret[c] = Threw
             /\ op[c].op = "popAllMessagesFromQueue" =>
                   /\ ret[c].t = "list"
                   /\ wrote[c] = "failed" => ret[c].v = <<>>
    /\ ret[Worker] # Threw

\* A handler's enqueue has thrown and the worker's drain of a non-empty queue,
\* whose write rejected too, has returned the empty list.
C16_Witness ==
    /\ pc[Worker] = "done"
    /\ op[Worker] = PopOp
    /\ wrote[Worker] = "failed"
    /\ seen[Worker] # <<>>
    /\ ret[Worker] = List(<<>>)
    /\ \E c \in Handlers :
          /\ pc[c] = "done"
          /\ op[c].op = "addMessageToQueue"
          /\ wrote[c] = "failed"
          /\ ret[c] = Threw

\* C17: the step in which a db.write() rejects leaves the in-memory document
\* as the accessor mutated it and the file as it was; after a rejected banUser
\* the user is banned in memory; the step in which a later db.write() succeeds
\* puts the whole in-memory document, that mutation included, into the file.
C17_NoRollback ==
    [][\A c \in Callers :
          /\ (wrote[c] # "failed" /\ wrote'[c] = "failed") =>
                /\ mem' = mem
                /\ mem' = pend[c][1]
                /\ disk' = disk
                /\ op[c].op = "banUser" => isUserBanned(mem', op[c].userId)
          /\ (wrote[c] # "ok" /\ wrote'[c] = "ok") =>
                /\ mem' = mem
                /\ disk' = mem']_vars

\* Every banUser call had its write rejected, user 1 was not banned at first,
\* and a later successful write of another accessor has put the ban into the file.
C17_Witness ==
    /\ doc0 = defaultData
    /\ \E c \in Handlers : pc[c] = "done" /\ op[c].op = "banUser" /\ ret[c] = Threw
    /\ \A c \in Handlers : op[c].op = "banUser" => wrote[c] = "failed"
    /\ \E c \in Handlers : pc[c] = "done" /\ op[c].op = "cacheFileId" /\ wrote[c] = "ok"
    /\ isUserBanned(mem, 1)
    /\ isUserBanned(disk, 1)

\* C18 as stated: a step of a call with a malformed argument changes neither
\* the in-memory document nor the file and does not throw; an enqueue of a
\* longer text stores its first TEXT_LIMIT characters.
C18_MalformedIsNoOp ==
    [][\A c \in Handlers :
          /\ (op'[c] \in MalformedOps /\ pc[c] # "waiting" /\ pc'[c] # pc[c]) =>
                /\ mem' = mem
                /\ disk' = disk
                /\ ret'[c] # Threw
          /\ (op[c].op = "addMessageToQueue" /\ pc[c] = "acquired" /\ pc'[c] = "writing") =>
                LET e == mem'.messageQueue[Len(mem'.messageQueue)]
                IN  /\ e.text.s = op[c].text.s
                    /\ e.text.len = Min(op[c].text.len, TEXT_LIMIT)]_vars

\* C19: a call of a read-only accessor changes nothing, takes no part in the
\* mutex and yields a value: null for an unknown user, font or a missing
\* record, false for an unbanned id, the empty list for an empty ban map.
C19_ReadsNeverFail ==
    [][lastRead' # lastRead =>
          /\ UNCHANGED <<mem, disk, locked, waiters, pc, ret>>
          /\ LET r == lastRead'
             IN  CASE r.q = "findUserById" ->
                        r.v = IF r.arg.userId \in DOMAIN mem.users
                              THEN <<mem.users[r.arg.userId]>> ELSE <<>>
                   [] r.q = "isUserBanned" ->
                        /\ r.v \in BOOLEAN
                        /\ r.v = (r.arg.userId \in DOMAIN mem.bannedUsers)
                   [] r.q = "getCachedFileId" ->
                        /\ Len(r.v) <= 1
                        /\ (\A i \in 1..Len(mem.fileIdCache) :
                               mem.fileIdCache[i].fontName # r.arg.fontName) => r.v = <<>>
                   [] r.q = "getBanList" ->
                        /\ Len(r.v) = Cardinality(DOMAIN mem.bannedUsers)
                        /\ DOMAIN mem.bannedUsers = {} => r.v = <<>>
                   [] r.q = "getBroadcastStatus" ->
                        /\ r.v = mem.broadcastResults
                        /\ Len(r.v) <= 1
                   [] r.q = "getAllUsers" ->
                        Len(r.v) = Cardinality(DOMAIN mem.users)]_vars

\* findUserById of an unknown id has returned null while a writer held the
\* mutex and its db.write() was in flight.
C19_Witness ==
    /\ lastRead.q = "findUserById"
    /\ lastRead.arg.userId = 9
    /\ lastRead.v = <<>>
    /\ lastRead.locked
    /\ locked
    /\ \E c \in Handlers : pc[c] = "writing"

\* C20: the critical section of banUser on a banned id ends at once with
\* false and changes neither memory nor file, so the entry keeps its reason
\* and date; on an unbanned id it bans the user and goes on to db.write(), and
\* an unban right after would give back the ban map as it was; unbanUser on a
\* banned id removes exactly that entry and goes on to db.write(), on an
\* unbanned id it ends at once with false.  A call that wrote returns true.
C20_BanUnban ==
    [][\A c \in Callers :
          /\ (pc[c] = "acquired" /\ pc'[c] # "acquired" /\ op[c].op = "banUser") =>
                IF isUserBanned(mem, op[c].userId)
                THEN /\ pc'[c] = "done"
                     /\ ret'[c] = Bool(FALSE)
                     /\ mem' = mem
                     /\ disk' = disk
                ELSE /\ pc'[c] = "writing"
                     /\ isUserBanned(mem', op[c].userId)
                     /\ unbanUser(mem', op[c].userId).doc.bannedUsers = mem.bannedUsers
          /\ (pc[c] = "acquired" /\ pc'[c] # "acquired" /\ op[c].op = "unbanUser") =>
                IF isUserBanned(mem, op[c].userId)
                THEN /\ pc'[c] = "writing"
                     /\ ~isUserBanned(mem', op[c].userId)
                     /\ mem'.bannedUsers = Del(mem.bannedUsers, op[c].userId)
                ELSE /\ pc'[c] = "done"
                     /\ ret'[c] = Bool(FALSE)
                     /\ mem' = mem
                     /\ disk' = disk
          /\ (wrote[c] # "ok" /\ wrote'[c] = "ok" /\ op[c].op \in {"banUser", "unbanUser"}) =>
                ret'[c] = Bool(TRUE)]_vars

\* On a database where user 1 was banned, a ban has returned false, an unban
\* true and a new ban true; the user is banned with the date of the new ban.
C20_Witness ==
    /\ doc0 = SeedDoc
    /\ \E c1, c2, c3 \in Handlers :
          /\ pc[c1] = "done" /\ op[c1].op = "banUser" /\ ret[c1] = Bool(FALSE)
          /\ pc[c2] = "done" /\ op[c2].op = "unbanUser" /\ ret[c2] = Bool(TRUE)
          /\ pc[c3] = "done" /\ op[c3].op = "banUser" /\ ret[c3] = Bool(TRUE)
    /\ isUserBanned(mem, 1)
    /\ mem.bannedUsers[1].date > 1
    /\ disk.bannedUsers = mem.bannedUsers

\* ------------------------------------- a user's activity close to its cap

\* A stored list of n downloads, newest first.
StoredDownloads(n) == [i \in 1..n |-> [fontName |-> FontA, date |-> n + 1 - i]]

\* User 1 as an earlier run stored it, with n downloads.
ActiveUser(n) == [UserRec(1, FALSE) EXCEPT !.activity.downloads = StoredDownloads(n)]

ActivityOps ==
    {[op |-> "logDownload", userId |-> 1, fontName |-> Txt("Khmer", 5)],
     [op |-> "logDownload", userId |-> 9, fontName |-> FontA],
     [op |-> "logUpload", userId |-> 1, fontName |-> FontA, status |-> "pending"],
     [op |-> "addOrUpdateUser", user |-> [id |-> 1, first_name |-> "b", is_bot |-> FALSE]],
     [op |-> "addOrUpdateUser", user |-> [id |-> 2, first_name |-> "b", is_bot |-> FALSE]]}

\* The store starts with user 1 holding no download, one less than the cap or the cap.
InitActivity ==
    /\ \E n \in {0, ACTIVITY_CAP - 1, ACTIVITY_CAP} :
          InitStore([defaultData EXCEPT !.users = Put(EmptyMap, 1, ActiveUser(n))],
                    ACTIVITY_CAP + 1)
    /\ InitWorker({})

\* A handler issues one of at most MaxCalls activity calls.
CallActivity(c) ==
    /\ pc[c] = "idle"
    /\ InTurn(c)
    /\ Len(reqOrder) < MaxCalls
    /\ \E o \in ActivityOps : Acquire(c, o)
    /\ UNCHANGED <<workerVars, auxVars>>

NextActivity ==
    \E c \in TwoCallers :
        \/ CallActivity(c)
        \/ Resume(c)
        \/ WriteOk(c)
        \/ WriteFail(c)
        \/ Return(c)

SpecActivity == InitActivity /\ [][NextActivity]_vars

\* ------------------------------------------------------ claims C21 to C30

\* Caller c resumes inside its critical section in this step and runs operation name.
Enters(c, name) == pc[c] = "acquired" /\ pc'[c] # "acquired" /\ op[c].op = name

Downloads(d, u) == d.users[u].activity.downloads

NewestFirst(s) == \A i, j \in 1..Len(s) : i < j => s[i].date > s[j].date

\* C21: for every stored user the downloads list has at most 20 entries,
\* newest first; a logDownload for a known user puts the new entry at index 0,
\* keeps the earlier ones in order behind it and, when the list already held
\* 20, drops the oldest; a logDownload for an unknown user id leaves the
\* document alone and returns without writing.
C21_DownloadsCapped ==
    /\ [](\A u \in DOMAIN mem.users :
             Len(Downloads(mem, u)) <= ACTIVITY_CAP /\ NewestFirst(Downloads(mem, u)))
    /\ [][\A c \in Handlers :
             Enters(c, "logDownload") =>
                LET u == op[c].userId
                IN  IF u \in DOMAIN mem.users
                    THEN LET old == Downloads(mem, u)
                             new == Downloads(mem', u)
                         IN  /\ Len(new) = Min(Len(old) + 1, ACTIVITY_CAP)
                             /\ new[1] = [fontName |-> op[c].fontName, date |-> clock]
                             /\ Tail(new) = SubSeq(old, 1, Len(new) - 1)
                    ELSE /\ mem' = mem
                         /\ disk' = disk
                         /\ pc'[c] = "done"
                         /\ wrote'[c] = "none"]_vars

\* A full list took a 21st download (the oldest stored entry is gone) next to a
\* finished logDownload for an unknown user.
C21_Witness ==
    /\ 1 \in DOMAIN doc0.users
    /\ Len(Downloads(doc0, 1)) = ACTIVITY_CAP
    /\ Len(Downloads(mem, 1)) = ACTIVITY_CAP
    /\ Downloads(mem, 1)[1].date > ACTIVITY_CAP
    /\ Downloads(mem, 1)[ACTIVITY_CAP].date = 2
    /\ \E c \in Handlers : pc[c] = "done" /\ op[c].op = "logDownload" /\ op[c].userId = 9

\* C22: a stored user stays stored with the same firstSeen whatever is called;
\* an addOrUpdateUser sets lastSeen to the time of the call, carries the
\* activity lists of an existing record over unchanged and gives a new record
\* firstSeen = the time of the call.
C22_FirstSeenKept ==
    [][/\ \A u \in DOMAIN mem.users :
             u \in DOMAIN mem'.users /\ mem'.users[u].firstSeen = mem.users[u].firstSeen
       /\ \A c \in Handlers :
             Enters(c, "addOrUpdateUser") =>
                LET u == op[c].user.id
                IN  /\ mem'.users[u].lastSeen = clock
                    /\ IF u \in DOMAIN mem.users
                       THEN mem'.users[u].activity = mem.users[u].activity
                       ELSE mem'.users[u].firstSeen = clock]_vars

\* User 1 was upserted again after a download was logged: first seen at 1,
\* last seen later, the download still there; user 2 is new.
C22_Witness ==
    /\ 1 \in DOMAIN mem.users
    /\ mem.users[1].firstSeen = 1
    /\ mem.users[1].lastSeen > ACTIVITY_CAP
    /\ Len(Downloads(mem, 1)) > 0
    /\ Downloads(mem, 1)[1].date > ACTIVITY_CAP
    /\ Downloads(mem, 1)[1].date < mem.users[1].lastSeen
    /\ 2 \in DOMAIN mem.users
    /\ mem.users[2].firstSeen = mem.users[2].lastSeen

\* --------------------------------------------- start-up on a stored file

Fields == {"users", "bannedUsers", "messageQueue", "fileIdCache", "broadcastResults"}

\* A db.json with every collection filled.
FullDoc ==
    [users |-> Put(EmptyMap, 1, UserRec(1, FALSE)),
     bannedUsers |-> Put(EmptyMap, 1, [reason |-> Txt("old", 3), date |-> 1]),
     messageQueue |-> <<[chatId |-> 1, text |-> Txt("old", 3), isBroadcast |-> FALSE,
                         timestamp |-> 1]>>,
     fileIdCache |-> <<[fontName |-> FontA, fileId |-> "f0"]>>,
     broadcastResults |-> <<OldBroadcast>>]

\* A db.json that holds only the collections of S (an absent file when S is empty).
StoredFile(S) == [k \in S |-> FullDoc[k]]

\* Variant: start-up always begins from the default document.
initializeDatabaseResets(file) == defaultData

\* db.read() and the lines after it: db.data is the file's content, and every
\* required field the file lacks gets its default.
initializeDatabase(file) ==
    [k \in DOMAIN file \cup Fields |-> IF k \in DOMAIN file THEN file[k] ELSE defaultData[k]]

\* The process starts: db = new Low(adapter, defaultData), nothing is running.
InitBoot ==
    /\ \E S \in SUBSET Fields : disk = StoredFile(S) /\ doc0 = StoredFile(S)
    /\ mem = defaultData
    /\ clock = 2
    /\ locked = FALSE
    /\ waiters = <<>>
    /\ pc = [c \in Callers |-> "idle"]
    /\ op = [c \in Callers |-> NoOp]
    /\ pend = [c \in Callers |-> <<>>]
    /\ ret = [c \in Callers |-> Undefined]
    /\ seen = [c \in Callers |-> <<>>]
    /\ reqOrder = <<>>
    /\ enterOrder = <<>>
    /\ applied = <<>>
    /\ writeFailed = FALSE
    /\ wrote = [c \in Callers |-> "none"]
    /\ drainLog = <<>>
    /\ InitWorker({})

\* main() of index.js is caller 1.
Main == 1

\* main() calls initializeDatabase, which awaits the mutex.
Boot ==
    /\ pc[Main] = "idle"
    /\ Acquire(Main, [op |-> "initializeDatabase"])
    /\ UNCHANGED <<workerVars, auxVars>>

\* db.read() resolved: the missing fields are filled in and db.write() is called.
Loaded ==
    /\ pc[Main] = "acquired"
    /\ op[Main].op = "initializeDatabase"
    /\ mem' = initializeDatabase(disk)
    /\ pend' = [pend EXCEPT ![Main] = <<mem'>>]
    /\ pc' = [pc EXCEPT ![Main] = "writing"]
    /\ UNCHANGED <<disk, clock, locked, waiters, op, ret, seen, reqOrder, enterOrder, applied,
                   writeFailed, wrote, drainLog, doc0>>
    /\ UNCHANGED <<workerVars, auxVars>>

\* db.read() rejected: the catch block logs and rethrows, finally releases.
ReadFail ==
    /\ pc[Main] = "acquired"
    /\ op[Main].op = "initializeDatabase"
    /\ ret' = [ret EXCEPT ![Main] = Threw]
    /\ Release([pc EXCEPT ![Main] = "done"])
    /\ UNCHANGED <<mem, disk, clock, op, pend, seen, reqOrder, enterOrder, applied,
                   writeFailed, wrote, drainLog, doc0>>
    /\ UNCHANGED <<workerVars, auxVars>>

\* What a handler does once the bot runs.
BootOps ==
    {[op |-> "cacheFileId", fontName |-> FontA, fileId |-> "f1"],
     [op |-> "addOrUpdateUser", user |-> [id |-> 2, first_name |-> "b", is_bot |-> FALSE]]}

\* main() got past initializeDatabase: the bot is created and a handler calls an accessor.
CallBooted(c) ==
    /\ c # Main
    /\ pc[c] = "idle"
    /\ pc[Main] = "done"
    /\ ret[Main] = Undefined
    /\ \E o \in BootOps : Acquire(c, o)
    /\ UNCHANGED <<workerVars, auxVars>>

\* The process is stopped at any moment and started again: only db.json is
\* kept and main() runs from its first line.
Reboot ==
    /\ restarts < MaxRestarts
    /\ restarts' = restarts + 1
    /\ mem' = defaultData
    /\ locked' = FALSE
    /\ waiters' = <<>>
    /\ pc' = [c \in Callers |-> "idle"]
    /\ op' = [c \in Callers |-> NoOp]
    /\ pend' = [c \in Callers |-> <<>>]
    /\ ret' = [c \in Callers |-> Undefined]
    /\ seen' = [c \in Callers |-> <<>>]
    /\ wrote' = [c \in Callers |-> "none"]
    /\ reqOrder' = <<>>
    /\ enterOrder' = <<>>
    /\ applied' = <<>>
    /\ UNCHANGED <<disk, clock, writeFailed, drainLog, doc0, workerVars, atCrash, lastRead, frames>>

NextBoot ==
    \/ Boot
    \/ Loaded
    \/ ReadFail
    \/ WriteOk(Main)
    \/ WriteFail(Main)
    \/ Reboot
    \/ \E c \in TwoCallers \ {Main} :
          \/ CallBooted(c)
          \/ Resume(c)
          \/ WriteOk(c)
          \/ WriteFail(c)

SpecBoot == InitBoot /\ [][NextBoot]_vars

\* ----------------------------------------------------------- claim C23

\* The step in which initializeDatabase ends for main().
InitEnds == op[Main].op = "initializeDatabase" /\ pc[Main] # "done" /\ pc'[Main] = "done"

\* C23: when initializeDatabase has read the file, the document holds users,
\* bannedUsers, messageQueue, fileIdCache and broadcastResults: a collection
\* the file held is kept as it was, one it lacked is the empty map, the empty
\* list or null; a file that is already complete (as after an earlier call) is
\* taken over unchanged and initialising the result again changes nothing;
\* the successful write stores that document; when the read or the write
\* fails the caller gets the exception and the mutex is free by then.
C23_InitializeDatabase ==
    [][/\ (Enters(Main, "initializeDatabase") /\ pc'[Main] = "writing") =>
             /\ Fields \subseteq DOMAIN mem'
             /\ \A k \in Fields \cap DOMAIN disk : mem'[k] = disk[k]
             /\ "users" \notin DOMAIN disk => mem'.users = EmptyMap
             /\ "bannedUsers" \notin DOMAIN disk => mem'.bannedUsers = EmptyMap
             /\ "messageQueue" \notin DOMAIN disk => mem'.messageQueue = <<>>
             /\ "fileIdCache" \notin DOMAIN disk => mem'.fileIdCache = <<>>
             /\ "broadcastResults" \notin DOMAIN disk => mem'.broadcastResults = <<>>
             /\ Fields \subseteq DOMAIN disk => mem' = disk
             /\ initializeDatabase(mem') = mem'
       /\ (InitEnds /\ wrote'[Main] = "ok") => (disk' = mem /\ mem' = mem /\ ret'[Main] = Undefined)
       /\ (InitEnds /\ wrote'[Main] # "ok") => (ret'[Main] = Threw /\ ~locked' /\ disk' = disk)]_vars

\* The second start-up on a file that first held only the users: the document
\* in memory and the file agree, the users are the stored ones and the other
\* collections are empty.
C23_Witness ==
    /\ DOMAIN doc0 = {"users"}
    /\ restarts = 1
    /\ pc[Main] = "done"
    /\ wrote[Main] = "ok"
    /\ ~writeFailed
    /\ applied = <<>>
    /\ mem = disk
    /\ mem.users = FullDoc.users
    /\ mem.messageQueue = <<>>
    /\ mem.broadcastResults = <<>>

\* ------------------------- components that work on the object of getData()

\* ContentService.trackContentView: data = getData(); the analytics map is
\* created when missing and views[today][contentId] is incremented; nothing is saved.
trackContentView(d, contentId) ==
    LET views == IF "contentAnalytics" \in DOMAIN d THEN d.contentAnalytics ELSE EmptyMap
        n == IF contentId \in DOMAIN views THEN views[contentId] ELSE 0
    IN  Put(d, "contentAnalytics", Put(views, contentId, n + 1))

\* UserProfileService.updateUserStats up to its saveData call: data =
\* getData(); the user's entry is created when missing, lastUsed is set and
\* the numeric updates are added.
updateUserStats(d, userId, totalRequests, now) ==
    LET old == IF userId \in DOMAIN d.userStats THEN d.userStats[userId].totalRequests ELSE 0
    IN  Put(d, "userStats",
            Put(d.userStats, userId, [totalRequests |-> old + totalRequests, lastUsed |-> now]))

\* Views tracked so far.
Views(d) == IF "contentAnalytics" \in DOMAIN d THEN d.contentAnalytics[7] ELSE 0

SharedOps ==
    {[op |-> "banUser", userId |-> 2, reason |-> Txt("spam", 4)],
     [op |-> "logUpload", userId |-> 1, fontName |-> FontA, status |-> "pending"],
     [op |-> "cacheFileId", fontName |-> FontA, fileId |-> "f1"]}

\* UserProfileService.init() has run: the document has its userStats map.
InitShared ==
    /\ InitStore(Put(SeedDoc, "userStats", EmptyMap), 2)
    /\ InitWorker({})

CallShared(c) ==
    /\ pc[c] = "idle"
    /\ InTurn(c)
    /\ \E o \in SharedOps : Acquire(c, o)
    /\ UNCHANGED <<workerVars, auxVars>>

\* A content item is viewed: trackContentView changes the document and returns.
TrackView ==
    /\ Views(mem) < MaxViews
    /\ mem' = trackContentView(mem, 7)
    /\ UNCHANGED <<disk, clock, locked, waiters, pc, op, pend, ret, seen, reqOrder, enterOrder,
                   applied, writeFailed, wrote, drainLog, doc0>>
    /\ UNCHANGED <<workerVars, auxVars>>

\* A command was handled: updateUserStats changes the object of getData() and
\* then calls saveData with it, which awaits the mutex.
UserStats(c) ==
    /\ pc[c] = "idle"
    /\ InTurn(c)
    /\ mem' = updateUserStats(mem, c, 1, clock)
    /\ Request(c, [op |-> "saveData", data |-> Live])
    /\ UNCHANGED <<workerVars, auxVars>>

NextShared ==
    \/ TrackView
    \/ \E c \in TwoCallers :
          \/ CallShared(c)
          \/ UserStats(c)
          \/ Resume(c)
          \/ WriteOk(c)
          \/ WriteFail(c)

SpecShared == InitShared /\ [][NextShared]_vars

\* ------------------------------------------------------- claims C24, C25

\* C24: the in-memory document changes only in a step of a caller that holds
\* the dbService mutex and runs its critical section.
C24_MutatedUnderMutex ==
    [][mem' # mem => \E c \in Callers : pc[c] = "acquired" /\ pc'[c] \in {"writing", "done"}]_vars

\* C25: whenever the mutex is free and no write has failed so far, the
\* persisted document equals the in-memory document.
C25_FileFollowsMemory == (~locked /\ ~writeFailed) => disk = mem

\* ----------------------------------------------------------- claim C26

\* The document after the operations of ops ran one after another from d.
RECURSIVE ReplayOps(_, _, _)
ReplayOps(d, ops, now) ==
    IF ops = <<>> THEN d
    ELSE ReplayOps(Apply(d, Head(ops), now).doc, Tail(ops), now + 1)

\* The document after the first k critical sections ran completely.
Committed(k) == ReplayOps(doc0, SubSeq(applied, 1, k), clock - Len(applied))

\* C26: the in-memory document is always the result of a whole number of
\* critical sections, and what a read-only accessor returned is its answer on
\* such a document: no reader sees a mutation applied in part.
C26_ReadsSeeWholeMutations ==
    /\ mem = Committed(Len(applied))
    /\ lastRead.q # "none" =>
          \E k \in 0..Len(applied) : lastRead.v = Answer(Committed(k), lastRead.arg)

\* getBanList ran while banUser was still waiting for its db.write(): the
\* reader got the list with the new ban, which the file does not hold yet.
C26_Witness ==
    /\ \E c \in Handlers : pc[c] = "writing" /\ op[c].op = "banUser"
    /\ lastRead.q = "getBanList"
    /\ lastRead.locked
    /\ lastRead.v = Answer(mem, lastRead.arg)
    /\ lastRead.v # Answer(disk, lastRead.arg)

\* ------------------------------------------- progress under fair scheduling

\* Calls that end inside the critical section without a write (user 1 is
\* banned already), that rethrow a failed write and that swallow it.
LiveOps ==
    {[op |-> "banUser", userId |-> 1, reason |-> Txt("spam", 4)],
     [op |-> "banUser", userId |-> 2, reason |-> Txt("spam", 4)],
     [op |-> "logUpload", userId |-> 1, fontName |-> FontA, status |-> "pending"],
     [op |-> "popAllMessagesFromQueue"]}

CallLive(c) ==
    /\ pc[c] = "idle"
    /\ InTurn(c)
    /\ \E o \in LiveOps : Acquire(c, o)
    /\ UNCHANGED <<workerVars, auxVars>>

NextLive ==
    \E c \in Handlers :
        \/ CallLive(c)
        \/ Resume(c)
        \/ WriteOk(c)
        \/ WriteFail(c)

\* The event loop runs the continuation of every resolved promise, and every
\* db.write() settles: it resolves or rejects.
Fairness ==
    \A c \in Handlers : WF_vars(Resume(c)) /\ WF_vars(WriteOk(c) \/ WriteFail(c))

SpecLive == InitStore(SeedDoc, 2) /\ InitWorker({}) /\ [][NextLive]_vars /\ Fairness

\* ----------------------------------------------------------- claim C27

\* Callers inside a critical section.
Holders == {c \in Callers : pc[c] \in {"acquired", "writing"}}

\* Every waiter occurs once in the queue of the mutex.
QueuedOnce == \A i, j \in 1..Len(waiters) : waiters[i] = waiters[j] => i = j

\* C27: a caller inside its critical section is not queued for the mutex, at
\* most one caller is inside, and the mutex is held exactly while some caller
\* is inside (each path out of a critical section releases it); under fair
\* scheduling and terminating writes every call that requested the mutex
\* enters its critical section and every call inside leaves it.
C27_NoDeadlock ==
    /\ [](/\ Cardinality(Holders) <= 1
          /\ locked = (Holders # {})
          /\ QueuedOnce
          /\ \A i \in 1..Len(waiters) : pc[waiters[i]] = "waiting" /\ waiters[i] \notin Holders
          /\ \A c \in Handlers : pc[c] = "waiting" => \E i \in 1..Len(waiters) : waiters[i] = c)
    /\ \A c \in Handlers : (pc[c] = "waiting") ~> (pc[c] \in {"acquired", "writing", "done"})
    /\ \A c \in Handlers : (pc[c] \in {"waiting", "acquired", "writing"}) ~> (pc[c] = "done")

\* The first call failed its write and left, the mutex went to the second
\* caller while the third is queued.
C27_Witness ==
    /\ pc[1] = "done"
    /\ wrote[1] = "failed"
    /\ pc[2] = "acquired"
    /\ waiters = <<3>>
    /\ locked

\* ----------------------------------------------------------- claim C28

\* This step calls bot.sendMessage for a further recipient of the running broadcast.
NextBroadcastSend ==
    /\ Len(sends) > 0
    /\ Len(sends') = Len(sends) + 1
    /\ sends'[Len(sends')].kind = "broadcast"

\* C28: a send of a broadcast that follows an earlier send of the same
\* broadcast is made in the step in which the fixed delay started after the
\* earlier outcome was logged runs out; while the delay runs nothing is sent.
C28_DelayBetweenSends ==
    [][/\ NextBroadcastSend => (wpc = "delay" /\ wpc' = "send" /\ idx' = idx + 1)
       /\ (wpc = "log" /\ wpc' # "log") => (wpc' = "delay" /\ sends' = sends)]_vars

\* The second recipient of a broadcast is being served.
C28_Witness ==
    /\ wpc = "send"
    /\ idx = 2
    /\ Len(sends) = 2
    /\ sends[1].kind = "broadcast"
    /\ sends[2].kind = "broadcast"
    /\ sends[1].chatId # sends[2].chatId
    /\ Len(logged) = 1

\* ----------------------------------------------------------- claim C29

\* C29: isWorkerRunning is set exactly while a drain cycle runs, so it is
\* false again when a cycle has ended, whether the queue was empty or the
\* batch was handled; a cycle starts only at a tick that finds the flag
\* cleared, so at most one cycle runs; and when no cycle runs the worker
\* holds no call of the store, so the next tick can start one.
C29_OneCycleAtATime ==
    /\ [](/\ isWorkerRunning = (wpc # "idle")
          /\ wpc = "idle" => pc[Worker] \in {"idle", "done"})
    /\ [][/\ ticks' # ticks =>
                (~isWorkerRunning /\ wpc = "idle" /\ isWorkerRunning' /\ ticks' = ticks + 1)
          /\ (wpc # "idle" /\ wpc' = "idle") => ~isWorkerRunning']_vars

\* The first cycle sent its batch and ended; the second found the queue empty
\* and ended as well, with the flag cleared.
C29_Witness ==
    /\ ticks = 2
    /\ wpc = "idle"
    /\ ~isWorkerRunning
    /\ messagesToSend = <<>>
    /\ Len(sends) > 0
    /\ drainLog # <<>>
    /\ Len(drainLog) = 2

\* ----------------------------------------------------------- claim C30

\* sent + failed <= total, at most 50 error entries, no more entries than failures.
Consistent(r) ==
    /\ r.sent + r.failed <= r.total
    /\ Len(r.errors) <= ERROR_CAP
    /\ Len(r.errors) <= r.failed

\* C30: whenever a broadcast record exists, in memory or in the file, its
\* counters satisfy sent + failed <= total, its error list has at most 50
\* entries and no more entries than failed sends, whatever handlers call in
\* between and however many broadcasts follow each other.
C30_RecordConsistent ==
    /\ mem.broadcastResults # <<>> => Consistent(Record)
    /\ disk.broadcastResults # <<>> => Consistent(DiskRecord)

\* The second broadcast of the run, started after a handler added a user, has
\* served its three recipients, one of them without success.
C30_Witness ==
    /\ ticks = 2
    /\ BroadcastStarted
    /\ mem.broadcastResults # <<>>
    /\ Record.total = 3
    /\ Record.sent + Record.failed = 3
    /\ Record.failed > 0
    /\ Len(Record.errors) = Record.failed

\* ----------------------------------------------------------- claim C31

\* C31: an entry leaves the in-memory queue only in a drain's critical section
\* or as one of the oldest entries cut by an enqueue that found the queue at
\* its cap; every finished drain has handed its caller all the entries it
\* took out, and no entry is handed out by two drains.
C31_NoEntryLost ==
    /\ [](/\ \A i, j \in 1..Len(drainLog) :
                i # j => Entries(drainLog[i].returned) \cap Entries(drainLog[j].returned) = {}
          /\ \A i \in 1..Len(drainLog) : drainLog[i].returned = drainLog[i].before)
    /\ [][\A i \in 1..Len(mem.messageQueue) :
             mem.messageQueue[i] \notin Entries(mem'.messageQueue) =>
                \E c \in Callers :
                   \/ Enters(c, "popAllMessagesFromQueue")
                   \/ /\ Enters(c, "addMessageToQueue")
                      /\ Len(mem.messageQueue) >= QUEUE_CAP
                      /\ i <= Len(mem.messageQueue) - QUEUE_KEEP]_vars

\* ------------------------------------------- a batch of regular messages

\* Four regular messages are queued, the second one without a chat id.
RegularBatch ==
    [defaultData EXCEPT
        !.users = [u \in 1..3 |-> UserRec(u, FALSE)],
        !.messageQueue = <<[chatId |-> 2, text |-> Txt("a", 1), isBroadcast |-> FALSE,
                            timestamp |-> 1],
                           [chatId |-> 0, text |-> Txt("lost", 4), isBroadcast |-> FALSE,
                            timestamp |-> 1],
                           [chatId |-> 3, text |-> Txt("b", 1), isBroadcast |-> FALSE,
                            timestamp |-> 1],
                           [chatId |-> 2, text |-> Txt("c", 1), isBroadcast |-> FALSE,
                            timestamp |-> 1]>>]

\* Regular messages queued while the worker runs, one of them without a chat id.
RegularOps ==
    {[op |-> "addMessageToQueue", chatId |-> 3, text |-> Txt("hi", 2), isBroadcast |-> FALSE],
     [op |-> "addMessageToQueue", chatId |-> 0, text |-> Txt("hi", 2), isBroadcast |-> FALSE]}

InitRegular ==
    /\ InitStore(RegularBatch, 2)
    /\ \E f \in SUBSET {2, 3} : InitWorker(f)

CallRegular(c) ==
    /\ pc[c] = "idle"
    /\ InTurn(c)
    /\ \E o \in RegularOps : Acquire(c, o)
    /\ UNCHANGED <<workerVars, auxVars>>

NextRegular ==
    \/ Tick
    \/ TickSkipped
    \/ PopDone
    \/ RSendDone
    \/ RDelayDone
    \/ WorkerResume
    \/ WorkerWriteOk
    \/ WorkerWriteFail
    \/ \E c \in TwoCallers :
          \/ CallRegular(c)
          \/ Resume(c)
          \/ WriteOk(c)
          \/ WriteFail(c)

SpecRegular == InitRegular /\ [][NextRegular]_vars

\* ----------------------------------------------------------- claim C32

\* if (!msg.chatId || !msg.text) continue;
Sendable(m) == m.chatId # 0 /\ m.text.len > 0

\* C32: while a batch without a broadcast entry is handled, the send attempts
\* made so far are, one each and in queue order, the entries with a chatId and
\* a text among the first idx entries of the batch, whatever the outcome of
\* the earlier attempts; from the end of the cycle on they are all such
\* entries of the batch.
C32_RegularBatchSent ==
    (messagesToSend # <<>> /\ ~HasBroadcast(messagesToSend)) =>
        LET done == IF wpc \in {"rsend", "rdelay"} THEN idx ELSE Len(messagesToSend)
            due == SelectSeq(SubSeq(messagesToSend, 1, done), Sendable)
        IN  /\ Len(sends) = Len(due)
            /\ \A k \in 1..Len(due) :
                  /\ sends[k].kind = "regular"
                  /\ sends[k].chatId = due[k].chatId
                  /\ sends[k].text = due[k].text

\* The cycle has ended on the stored batch: three sends in queue order, the
\* first one rejected, and nothing sent for the entry without a chat id.
C32_Witness ==
    /\ wpc = "idle"
    /\ Len(messagesToSend) = 4
    /\ Len(sends) = 3
    /\ ~sends[1].ok
    /\ sends[2].ok
    /\ sends[1].text = Txt("a", 1)
    /\ sends[2].text = Txt("b", 1)
    /\ sends[3].text = Txt("c", 1)

\* ------------------------------------ the worker under fair scheduling

\* The worker next to one handler-side caller.
NextDrain ==
    \/ WorkerStep
    \/ CallHandler(1)
    \/ Resume(1)
    \/ WriteOk(1)
    \/ WriteFail(1)

\* The interval timer keeps firing, every bot.sendMessage, every delay timer
\* and every db.write() settles, and the event loop runs the continuation of
\* every resolved promise.
WorkerFairness ==
    /\ WF_vars(WorkerStep)
    /\ WF_vars(Resume(1))
    /\ WF_vars(WriteOk(1) \/ WriteFail(1))

SpecDrain == InitBroadcast /\ [][NextDrain]_vars /\ WorkerFairness

\* ----------------------------------------------------------- claim C33

\* A broadcast record exists and is not closed.
RecordOpen == mem.broadcastResults # <<>> /\ Record.completedAt = NullTime

\* C33: under fair scheduling a started broadcast record gets its completedAt,
\* and a queue that holds messages while the timer still fires is taken out
\* completely by a worker cycle (only the worker removes entries here).
C33_EventuallyDone ==
    /\ RecordOpen ~> (mem.broadcastResults # <<>> /\ Record.completedAt # NullTime)
    /\ (mem.messageQueue # <<>> /\ ticks < MaxTicks) ~> (mem.messageQueue = <<>>)
    /\ [][Len(mem'.messageQueue) < Len(mem.messageQueue) =>
             Enters(Worker, "popAllMessagesFromQueue")]_vars

\* The second cycle has drained a message that a handler queued after the
\* first drain, and the broadcast of the first cycle is closed.
C33_Witness ==
    /\ Len(drainLog) = 2
    /\ drainLog[1].before # <<>>
    /\ drainLog[2].before # <<>>
    /\ mem.messageQueue = <<>>
    /\ mem.broadcastResults # <<>>
    /\ Record.startedAt > 1
    /\ Record.completedAt # NullTime

\* ------------------------------------------- the middleware of index.js

\* The senders of the updates that arrive: a regular user and another bot.
Senders ==
    {[id |-> 2, first_name |-> "b", is_bot |-> FALSE],
     [id |-> 3, first_name |-> "c", is_bot |-> TRUE]}

\* What the admin's handler does about user 2 meanwhile.
AdminOps ==
    {[op |-> "banUser", userId |-> 2, reason |-> Txt("spam", 4)],
     [op |-> "unbanUser", userId |-> 2]}

\* The callers that run withMiddleware for an update; caller 3 is the admin's handler.
Updates == {1, 2}

InitMiddleware ==
    /\ InitStore(SeedDoc, 2)
    /\ InitWorker({})

\* if (!user || (user.is_bot && user.id.toString() !== ADMIN_ID)) return;
\* if (await db.isUserBanned(user.id)) return logger.warn(...)
Dropped(d, user) == (user.is_bot /\ user.id # ADMIN_ID) \/ isUserBanned(d, user.id)

\* withMiddleware returns early: nothing is stored and no handler runs.
MwDropped(c) ==
    /\ pc[c] = "idle"
    /\ \E user \in Senders : Dropped(mem, user)
    /\ UNCHANGED vars

\* withMiddleware passes its checks and calls db.addOrUpdateUser(user), which
\* awaits the mutex.
MwUpsert(c) ==
    /\ pc[c] = "idle"
    /\ Len(reqOrder) < MaxCalls
    /\ \E user \in Senders :
          /\ ~Dropped(mem, user)
          /\ Acquire(c, [op |-> "addOrUpdateUser", user |-> user])
    /\ UNCHANGED <<workerVars, auxVars>>

\* await db.addOrUpdateUser(user) is over: handler(bot)(updateObject) is
\* invoked, or the catch block logs what addOrUpdateUser threw.
MwHandler(c) == Return(c)

\* The handler is invoked for the update caller c works on.
Invokes(c) == pc[c] = "done" /\ pc'[c] = "idle" /\ ret[c] # Threw

CallAdmin(c) ==
    /\ pc[c] = "idle"
    /\ Len(reqOrder) < MaxCalls
    /\ \E o \in AdminOps : Acquire(c, o)
    /\ UNCHANGED <<workerVars, auxVars>>

NextMiddleware ==
    \/ \E c \in Updates :
          \/ MwDropped(c)
          \/ MwUpsert(c)
          \/ MwHandler(c)
    \/ CallAdmin(3)
    \/ Return(3)
    \/ \E c \in 1..3 :
          \/ Resume(c)
          \/ WriteOk(c)
          \/ WriteFail(c)

SpecMiddleware == InitMiddleware /\ [][NextMiddleware]_vars

\* ------------------------------------------------------------- claim C34

\* C34: an update of a banned user is never processed: withMiddleware calls
\* addOrUpdateUser only for a sender who is not banned at that moment, the
\* upsert is applied only to a sender who is not banned, and the handler is
\* invoked only for a sender who is not banned at the moment of the
\* invocation, also while a banUser for that sender is in flight.
C34_BannedNeverProcessed ==
    [][\A c \in Updates :
          /\ (pc[c] = "idle" /\ pc'[c] # "idle") => ~isUserBanned(mem, op'[c].user.id)
          /\ Enters(c, "addOrUpdateUser") => ~isUserBanned(mem, op[c].user.id)
          /\ Invokes(c) => ~isUserBanned(mem, op[c].user.id)]_vars

\* --------------------------------- getData -> modify -> saveData sequences

\* getData(): return db.data
getData(d) == Live

\* Variant: trackRequest works on a copy of the document and saves that copy.
trackRequestOnCopy(d, data, requests) ==
    LET old == IF data = Live THEN d ELSE data
    IN  [mem |-> d,
         data |-> Put(old, "monitoring",
                      [bot |-> [old.monitoring.bot EXCEPT !.requests = requests,
                                                          !.activeUsers = 1]])]

\* MonitoringService.trackRequest between its getData and its saveData, for a
\* successful request of one user: the counters of the service are written
\* into the object data refers to.  (lastHourRequests is created as an array,
\* so the per-hour counts set on it are no part of the JSON document.)
\* Gives the document in memory and the argument of saveData.
trackRequest(d, data, requests) ==
    LET old == IF data = Live THEN d ELSE data
        new == Put(old, "monitoring",
                   [bot |-> [old.monitoring.bot EXCEPT !.requests = requests,
                                                       !.activeUsers = 1]])
    IN  IF data = Live THEN [mem |-> new, data |-> Live] ELSE [mem |-> d, data |-> new]

\* setupMonitoringData has run on the stored document.
MonitoredDoc ==
    Put(SeedDoc, "monitoring", [bot |-> [requests |-> 0, errors |-> 0, activeUsers |-> 0]])

SaveOps ==
    {[op |-> "banUser", userId |-> 2, reason |-> Txt("spam", 4)],
     [op |-> "addMessageToQueue", chatId |-> 2, text |-> Txt("hi", 2), isBroadcast |-> FALSE]}

InitSave ==
    /\ InitStore(MonitoredDoc, 2)
    /\ InitWorker({})

\* The one caller that tracks requests; callers 2 and 3 are handlers.
Tracker == 1

\* const data = await db.getData()
TrackGet ==
    /\ pc[Tracker] = "idle"
    /\ ret[Tracker] = Undefined
    /\ Len(reqOrder) < MaxCalls
    /\ ret' = [ret EXCEPT ![Tracker] = [t |-> "object", v |-> getData(mem), at |-> clock]]
    /\ UNCHANGED <<mem, disk, clock, locked, waiters, pc, op, pend, seen, reqOrder, enterOrder,
                   applied, writeFailed, wrote, drainLog, doc0>>
    /\ UNCHANGED <<workerVars, auxVars>>

\* trackRequest resumes with data, writes the counters (this.metrics.requests
\* counts the calls of the one tracker) and calls saveData(data), which awaits
\* the mutex.
TrackSave ==
    /\ pc[Tracker] = "idle"
    /\ ret[Tracker].t = "object"
    /\ LET r == trackRequest(mem, ret[Tracker].v, mem.monitoring.bot.requests + 1)
       IN  /\ mem' = r.mem
           /\ Request(Tracker, [op |-> "saveData", data |-> r.data, readAt |-> ret[Tracker].at])
    /\ UNCHANGED <<workerVars, auxVars>>

CallSave(c) ==
    /\ pc[c] = "idle"
    /\ Len(reqOrder) < MaxCalls
    /\ \E o \in SaveOps : Acquire(c, o)
    /\ UNCHANGED <<workerVars, auxVars>>

NextSave ==
    \/ TrackGet
    \/ TrackSave
    \/ \E c \in {2, 3} : CallSave(c)
    \/ \E c \in 1..3 :
          \/ Resume(c)
          \/ WriteOk(c)
          \/ WriteFail(c)
          \/ Return(c)

SpecSave == InitSave /\ [][NextSave]_vars

\* ------------------------------------------------------------- claim C35

\* The document without the part trackRequest writes.
Rest(d) == [f \in DOMAIN d \ {"monitoring"} |-> d[f]]

\* No call is in flight and no write was rejected.
AllSaved == ~locked /\ ~writeFailed /\ \A c \in 1..3 : pc[c] \in {"idle", "done"}

\* C35: a getData -> modify -> saveData sequence interleaved with mutating
\* accessors discards none of their updates: the steps of the sequence change
\* nothing outside the part it modifies, the accessors keep what the sequence
\* wrote, and once both have finished with their writes successful the file
\* equals the document in memory, which holds both changes.
C35_BothChangesKept ==
    /\ [][(Enters(Tracker, "saveData") \/ (pc[Tracker] = "idle" /\ pc'[Tracker] # "idle"))
             => Rest(mem') = Rest(mem)]_vars
    /\ [][\A c \in {2, 3} : Enters(c, op[c].op) => mem'.monitoring = mem.monitoring]_vars
    /\ [](AllSaved /\ ret[Tracker].t # "object" => disk = mem)
    /\ [](\A i \in 1..Len(applied) :
             applied[i].op = "banUser" => isUserBanned(mem, applied[i].userId))

\* A ban entered and was written after the tracker's getData and before its
\* saveData entered; both are in memory and in the file.
C35_Witness ==
    /\ pc[Tracker] = "done"
    /\ op[Tracker].op = "saveData"
    /\ wrote[Tracker] = "ok"
    /\ Len(applied) = 2
    /\ applied[1].op = "banUser"
    /\ applied[2].op = "saveData"
    /\ mem.bannedUsers[2].date >= op[Tracker].readAt
    /\ isUserBanned(disk, 2)
    /\ disk.monitoring.bot.requests = 1
    /\ disk = mem

\* ------------------------------------------------------------- claim C36

\* The recipients handleBroadcastMessage computed when it started.
Recipients == {allUsers[i].id : i \in {j \in 1..Len(allUsers) : IsTarget(allUsers[j])}}

\* C36: while the worker sends to a recipient or waits out the delay between
\* two sends it neither holds nor awaits the dbService mutex, which is then free
\* or held by a handler's accessor; the record's total is the number of
\* recipients computed at the start and every broadcast send goes to one of
\* them, whatever users handlers add meanwhile.
C36_MutexFreeBetweenSends ==
    /\ wpc \in {"send", "delay"} =>
          /\ pc[Worker] \in {"idle", "done"}
          /\ locked => \E c \in Handlers : pc[c] \in {"acquired", "writing"}
    /\ BroadcastStarted =>
          /\ Record.total = Cardinality(Recipients)
          /\ \A i \in 1..Len(sends) : sends[i].chatId \in Recipients

\* User 4 was added and written to the file after the record of the running
\* broadcast was started and before its second recipient was served: user 4 is
\* no recipient and total is still 2.
C36_Witness ==
    /\ wpc = "send"
    /\ idx = 2
    /\ 4 \in DOMAIN mem.users
    /\ 4 \in DOMAIN disk.users
    /\ mem.users[4].firstSeen > Record.startedAt
    /\ 4 \notin Recipients
    /\ Record.total = 2
    /\ Len(sends) = 2

\* ----------------------------------------- a user's uploads close to the cap

\* A stored list of n uploads the admin has decided on, newest first.
StoredUploads(n) ==
    [i \in 1..n |-> [fontName |-> Txt("Old", 3), status |-> "approved", date |-> n + 1 - i,
                     decisionDate |-> n + 1 - i]]

\* User 1 sends font files (handleDocument) and the admin approves or rejects them.
UploadOps ==
    {[op |-> "logUpload", userId |-> 1, fontName |-> f, status |-> s] :
        f \in {FontA, Txt("Khmer", 5)}, s \in {"pending", "approved", "rejected"}}

InitUploads ==
    /\ \E n \in {0, ACTIVITY_CAP - 1, ACTIVITY_CAP} :
          InitStore([defaultData EXCEPT
                        !.users = Put(EmptyMap, 1,
                                      [UserRec(1, FALSE) EXCEPT
                                          !.activity.uploads = StoredUploads(n)])],
                    ACTIVITY_CAP + 1)
    /\ InitWorker({})

CallUploads(c) ==
    /\ pc[c] = "idle"
    /\ InTurn(c)
    /\ Len(reqOrder) < MaxCalls
    /\ \E o \in UploadOps : Acquire(c, o)
    /\ UNCHANGED <<workerVars, auxVars>>

NextUploads ==
    \E c \in TwoCallers :
        \/ CallUploads(c)
        \/ Resume(c)
        \/ WriteOk(c)
        \/ WriteFail(c)
        \/ Return(c)

SpecUploads == InitUploads /\ [][NextUploads]_vars

\* ------------------------------------------------------------- claim C37

Uploads(d, u) == d.users[u].activity.uploads

Decided(e) == e.status \in {"approved", "rejected"}

\* C37: a user's uploads list never has more than 20 entries and an entry
\* carries a decision date only if it is approved or rejected; logUpload
\* updates in place the pending entry of that font when there is one, leaving
\* the other entries and the length alone, and otherwise puts a new entry in
\* front; an entry that is decided is never changed again (it can only fall
\* off the end of the list).
C37_UploadLifecycle ==
    /\ [](\A u \in DOMAIN mem.users :
             /\ Len(Uploads(mem, u)) <= ACTIVITY_CAP
             /\ \A i \in 1..Len(Uploads(mem, u)) :
                   Uploads(mem, u)[i].decisionDate # NullTime => Decided(Uploads(mem, u)[i]))
    /\ [][\A c \in Handlers :
             Enters(c, "logUpload") =>
                LET old == Uploads(mem, op[c].userId)
                    new == Uploads(mem', op[c].userId)
                    k == FindPending(old, op[c].fontName)
                IN  IF k > 0
                    THEN /\ Len(new) = Len(old)
                         /\ new[k].status = op[c].status
                         /\ new[k].fontName = old[k].fontName
                         /\ \A i \in 1..Len(old) : i # k => new[i] = old[i]
                    ELSE /\ Len(new) = Min(Len(old) + 1, ACTIVITY_CAP)
                         /\ new[1].fontName = op[c].fontName
                         /\ new[1].status = op[c].status
                         /\ \A i \in 2..Len(new) : new[i] = old[i - 1]]_vars
    /\ [][\A u \in DOMAIN mem.users : \A i \in 1..Len(Uploads(mem, u)) :
             Decided(Uploads(mem, u)[i]) =>
                \/ Uploads(mem', u)[i] = Uploads(mem, u)[i]
                \/ i = ACTIVITY_CAP
                \/ Uploads(mem', u)[i + 1] = Uploads(mem, u)[i]]_vars

\* ------------------------------- user preferences next to the middleware

\* { ...this.getDefaultPreferences(), ...preferences, updatedAt: now }
mergedPreferences(language, now) == [language |-> language, updatedAt |-> now]

\* Users 1 and 3 are known.
PrefsDoc == [defaultData EXCEPT !.users = [u \in {1, 3} |-> UserRec(u, FALSE)]]

InitPrefs ==
    /\ InitStore(PrefsDoc, 2)
    /\ InitWorker({})

\* updateUserPreferences for a known user: user = db.findUserById(userId) is
\* the stored record itself; user.preferences is set on it and the record is
\* passed to db.addOrUpdateUser, which awaits the dbService mutex.  (The
\* service's own mutex only orders such calls among themselves.)
UpdatePreferences(c) ==
    /\ pc[c] = "idle"
    /\ Len(reqOrder) < MaxCalls
    /\ \E userId \in {1, 3}, language \in {"km", "en"} :
          /\ findUserById(mem, userId) # <<>>
          /\ mem' = [mem EXCEPT !.users[userId] =
                        Put(@, "preferences", mergedPreferences(language, clock))]
          /\ Request(c, [op |-> "addOrUpdateUser", user |-> mem'.users[userId]])
    /\ UNCHANGED <<workerVars, auxVars>>

\* withMiddleware stores the sender of an update: getUserInfo yields the
\* sender's Telegram fields only.
CallUpsert(c) ==
    /\ pc[c] = "idle"
    /\ Len(reqOrder) < MaxCalls
    /\ \E u \in {1, 2} :
          Acquire(c, [op |-> "addOrUpdateUser",
                      user |-> [id |-> u, first_name |-> "b", is_bot |-> FALSE]])
    /\ UNCHANGED <<workerVars, auxVars>>

NextPrefs ==
    \/ CallUpsert(1)
    \/ UpdatePreferences(2)
    \/ \E c \in {1, 2} :
          \/ Resume(c)
          \/ WriteOk(c)
          \/ WriteFail(c)
          \/ Return(c)

SpecPrefs == InitPrefs /\ [][NextPrefs]_vars

\* ------------------------------------------------------------- claim C38

\* C38: an addOrUpdateUser whose supplied record has no preferences leaves the
\* preferences another component stored on that user's record in place, and
\* no addOrUpdateUser changes another user's record, the ban list, the queue,
\* the file-id cache or the broadcast record.
C38_UpsertKeepsTheRest ==
    [][\A c \in Handlers :
          Enters(c, "addOrUpdateUser") =>
             LET u == op[c].user.id
             IN  /\ ( /\ "preferences" \notin DOMAIN op[c].user
                      /\ u \in DOMAIN mem.users
                      /\ "preferences" \in DOMAIN mem.users[u] )
                       => /\ "preferences" \in DOMAIN mem'.users[u]
                          /\ mem'.users[u].preferences = mem.users[u].preferences
                 /\ \A v \in DOMAIN mem.users \ {u} :
                       v \in DOMAIN mem'.users /\ mem'.users[v] = mem.users[v]
                 /\ DOMAIN mem'.users = DOMAIN mem.users \cup {u}
                 /\ mem'.bannedUsers = mem.bannedUsers
                 /\ mem'.messageQueue = mem.messageQueue
                 /\ mem'.fileIdCache = mem.fileIdCache
                 /\ mem'.broadcastResults = mem.broadcastResults]_vars

\* ------------------------------------------------- UserProfileService

\* { ...a, ...b }
Merge(a, b) == [x \in DOMAIN a \cup DOMAIN b |-> IF x \in DOMAIN b THEN b[x] ELSE a[x]]

\* The profile createDefaultProfile builds.
defaultProfile(userId, now) ==
    [userId |-> userId, language |-> "en", joinDate |-> now, lastActive |-> now]

\* setupProfileTables has run and user 1 has a stored profile.
ProfileDoc ==
    Put(SeedDoc, "userProfiles",
        Put(EmptyMap, 1, Put(defaultProfile(1, 1), "lastModified", 1)))

InitProfile ==
    /\ InitStore(ProfileDoc, 2)
    /\ InitWorker({})

\* One pending call of the service: its function, its user, its argument and
\* result (none: <<>>) and where it stands.
Frame(fn, userId, st, arg) == [fn |-> fn, userId |-> userId, st |-> st, arg |-> arg]

Top == frames[Len(frames)]

\* No call of the service is pending.
ServiceIdle == frames = <<>> \/ (Len(frames) = 1 /\ Top.st \in {"done", "threw"})

\* The frames below the top one, the lowest of them resumed with st and arg.
Below(st, arg) ==
    LET k == Len(frames) - 1
    IN  [SubSeq(frames, 1, k) EXCEPT ![k].st = st, ![k].arg = arg]

\* A handler asks for a user's profile (no cached copy) or sets a field of it.
ProfileCall ==
    /\ ServiceIdle
    /\ pc[1] = "idle"
    /\ Len(reqOrder) < MaxCalls
    /\ \E userId \in {1, 2} :
          \/ frames' = <<Frame("getUserProfile", userId, "run", <<>>)>>
          \/ frames' = <<Frame("updateUserProfile", userId, "run", <<[language |-> "km"]>>)>>
    /\ UNCHANGED <<storeVars, workerVars, restarts, atCrash, lastRead>>

\* updateUserProfile from its merge on: the stored profile is overlaid with
\* profileData and lastModified, and saveData(data) is called.
MergeAndSave(base, userId, profileData) ==
    /\ mem' = [mem EXCEPT !.userProfiles =
                  Put(@, userId, Put(Merge(base, profileData), "lastModified", clock))]
    /\ Request(1, [op |-> "saveData", data |-> Live])

\* The call on top runs up to its next await of another call of the service,
\* of saveData, or to its return.
ProfileRun ==
    /\ LET f == Top
           known == f.userId \in DOMAIN mem.userProfiles
           waits == [frames EXCEPT ![Len(frames)].st = "await"]
       IN  CASE f.fn = "getUserProfile" ->
                  \* data.userProfiles[userId] || await this.createDefaultProfile(userId)
                  /\ IF known
                     THEN frames' = [frames EXCEPT ![Len(frames)].st = "done",
                                                   ![Len(frames)].arg = <<mem.userProfiles[f.userId]>>]
                     ELSE /\ Len(frames) < MaxDepth
                          /\ frames' = Append(waits, Frame("createDefaultProfile", f.userId, "run", <<>>))
                  /\ UNCHANGED storeVars
             [] f.fn = "createDefaultProfile" ->
                  \* await this.updateUserProfile(userId, defaultProfile)
                  /\ Len(frames) < MaxDepth
                  /\ frames' = Append([waits EXCEPT ![Len(frames)].arg = <<defaultProfile(f.userId, clock)>>],
                                      Frame("updateUserProfile", f.userId, "run",
                                            <<defaultProfile(f.userId, clock)>>))
                  /\ UNCHANGED storeVars
             [] f.fn = "updateUserProfile" ->
                  \* if (!data.userProfiles[userId]) ... = await this.createDefaultProfile(userId)
                  IF known
                  THEN /\ pc[1] = "idle"
                       /\ MergeAndSave(mem.userProfiles[f.userId], f.userId, f.arg[1])
                       /\ frames' = [frames EXCEPT ![Len(frames)].st = "save"]
                  ELSE /\ Len(frames) < MaxDepth
                       /\ frames' = Append(waits, Frame("createDefaultProfile", f.userId, "run", <<>>))
                       /\ UNCHANGED storeVars
    /\ UNCHANGED <<workerVars, restarts, atCrash, lastRead>>

\* The call on top has returned or thrown: the call that awaits it resumes.
ProfileResume ==
    /\ Len(frames) > 1
    /\ LET child == Top
           f == frames[Len(frames) - 1]
       IN  CASE f.fn = "getUserProfile" ->
                  \* the profile is cached and returned; catch: return await createDefaultProfile
                  /\ IF child.st = "done"
                     THEN frames' = Below("done", child.arg)
                     ELSE IF f.st = "await"
                     THEN frames' = Append(Below("caught", <<>>),
                                           Frame("createDefaultProfile", f.userId, "run", <<>>))
                     ELSE frames' = Below("threw", <<>>)
                  /\ UNCHANGED storeVars
             [] f.fn = "createDefaultProfile" ->
                  \* return defaultProfile
                  /\ frames' = Below(child.st, IF child.st = "done" THEN f.arg ELSE <<>>)
                  /\ UNCHANGED storeVars
             [] f.fn = "updateUserProfile" ->
                  \* data.userProfiles[userId] = the default profile; catch: throw error
                  IF child.st = "done"
                  THEN /\ pc[1] = "idle"
                       /\ MergeAndSave(child.arg[1], f.userId, f.arg[1])
                       /\ frames' = Below("save", f.arg)
                  ELSE /\ frames' = Below("threw", <<>>)
                       /\ UNCHANGED storeVars
    /\ UNCHANGED <<workerVars, restarts, atCrash, lastRead>>

\* The service takes its next step.
ProfileStep ==
    /\ frames # <<>>
    /\ Top.st \in {"run", "done", "threw"}
    /\ IF Top.st = "run" THEN ProfileRun ELSE ProfileResume

\* saveData has returned to updateUserProfile, which returns the stored
\* profile or rethrows.
ProfileSaved ==
    /\ frames # <<>>
    /\ Top.st = "save"
    /\ pc[1] = "done"
    /\ frames' = [frames EXCEPT
                     ![Len(frames)].st = IF ret[1] = Threw THEN "threw" ELSE "done",
                     ![Len(frames)].arg = IF ret[1] = Threw THEN <<>>
                                          ELSE <<mem.userProfiles[Top.userId]>>]
    /\ pc' = [pc EXCEPT ![1] = "idle"]
    /\ op' = [op EXCEPT ![1] = NoOp]
    /\ ret' = [ret EXCEPT ![1] = Undefined]
    /\ seen' = [seen EXCEPT ![1] = <<>>]
    /\ wrote' = [wrote EXCEPT ![1] = "none"]
    /\ UNCHANGED <<mem, disk, clock, locked, waiters, pend, reqOrder, enterOrder, applied,
                   writeFailed, drainLog, doc0>>
    /\ UNCHANGED <<workerVars, restarts, atCrash, lastRead>>

NextProfile ==
    \/ ProfileCall
    \/ ProfileStep
    \/ ProfileSaved
    \/ CallSave(2)
    \/ Return(2)
    \/ \E c \in {1, 2} :
          \/ Resume(c)
          \/ WriteOk(c)
          \/ WriteFail(c)

SpecProfile == InitProfile /\ [][NextProfile]_vars

\* ------------------------------------------------------------- claim C39

\* C39: a getUserProfile for a user without a stored profile comes to an end:
\* createDefaultProfile and updateUserProfile never call each other again for
\* a user they are already pending for, and when getUserProfile returns the
\* profile it returns is the one stored under userProfiles[userId].
C39_GetUserProfileEnds ==
    /\ (frames # <<>> /\ frames[1].fn = "getUserProfile") =>
          \A i, j \in 1..Len(frames) : i < j => frames[i].fn # frames[j].fn
    /\ \A i \in 1..Len(frames) :
          (frames[i].fn = "getUserProfile" /\ frames[i].st = "done") =>
             /\ frames[i].userId \in DOMAIN mem.userProfiles
             /\ frames[i].arg = <<mem.userProfiles[frames[i].userId]>>

\* ------------------------------------------ the file-id cache close to its cap

\* The name of the i-th font file: names of one length, told apart by a number.
FontNo(i) == [s |-> "font", len |-> 8, no |-> i]

\* A stored cache of n entries, in the order of their insertion.
StoredCache(n) == [i \in 1..n |-> [fontName |-> FontNo(i), fileId |-> "f0"]]

\* File ids are cached for the oldest key, for a key in the middle and for new keys.
CacheOps ==
    {[op |-> "cacheFileId", fontName |-> FontNo(i), fileId |-> "f1"] :
        i \in {1, CACHE_EVICT + 1, CACHE_CAP + 1}}

InitCache ==
    /\ \E n \in {0, CACHE_CAP - 1, CACHE_CAP} :
          InitStore([defaultData EXCEPT !.fileIdCache = StoredCache(n)], 2)
    /\ InitWorker({})

CallCache(c) ==
    /\ pc[c] = "idle"
    /\ InTurn(c)
    /\ Len(reqOrder) < MaxCalls
    /\ \E o \in CacheOps : Acquire(c, o)
    /\ UNCHANGED <<workerVars, auxVars>>

NextCache ==
    \E c \in TwoCallers :
        \/ CallCache(c)
        \/ Resume(c)
        \/ WriteOk(c)
        \/ WriteFail(c)
        \/ Return(c)

SpecCache == InitCache /\ [][NextCache]_vars

\* ------------------------------------------------------------- claim C40

\* C40: the file-id cache never holds more than 1000 entries, in memory or in
\* the file; a cacheFileId that finds 1000 or more keys removes the 200 keys
\* inserted first and keeps the others, a cacheFileId that finds fewer keeps
\* them all; right after its mutation, and right after its successful write,
\* getCachedFileId(name) returns the id it was given, also when the call
\* evicted and when name was among the evicted keys.
C40_CacheBounded ==
    /\ [](Len(mem.fileIdCache) <= CACHE_CAP /\ Len(disk.fileIdCache) <= CACHE_CAP)
    /\ [][\A c \in Handlers :
             Enters(c, "cacheFileId") =>
                LET old == mem.fileIdCache
                    name == op[c].fontName
                    kept == IF Len(old) >= CACHE_CAP
                            THEN SubSeq(old, CACHE_EVICT + 1, Len(old))
                            ELSE old
                    Other(e) == e.fontName # name
                IN  /\ getCachedFileId(mem', name) = <<op[c].fileId>>
                    /\ SelectSeq(mem'.fileIdCache, Other) = SelectSeq(kept, Other)
                    /\ Len(mem'.fileIdCache) = Len(SelectSeq(kept, Other)) + 1]_vars
    /\ [][\A c \in Handlers :
             (pc[c] = "writing" /\ pc'[c] = "done" /\ wrote'[c] = "ok"
                /\ op[c].op = "cacheFileId") =>
                /\ getCachedFileId(mem', op[c].fontName) = <<op[c].fileId>>
                /\ getCachedFileId(disk', op[c].fontName) = <<op[c].fileId>>]_vars

\* A call found 1000 keys, evicted the 200 oldest, among them its own key, and
\* stored that key again as the newest of 801; the write succeeded.
C40_Witness ==
    /\ \E c \in Handlers :
          /\ pc[c] = "done"
          /\ op[c].op = "cacheFileId"
          /\ op[c].fontName = FontNo(1)
          /\ wrote[c] = "ok"
          /\ getCachedFileId(mem, FontNo(1)) = <<op[c].fileId>>
    /\ Len(mem.fileIdCache) = CACHE_CAP - CACHE_EVICT + 1
    /\ mem.fileIdCache[Len(mem.fileIdCache)].fontName = FontNo(1)
    /\ getCachedFileId(mem, FontNo(2)) = <<>>
    /\ Len(doc0.fileIdCache) = CACHE_CAP
    /\ disk = mem

====
